---------------------------- MODULE Spec2Model ----------------------------
(***************************************************************************)
(* A model of the hierarchical polyhedron splitting / clipping engine of   *)
(* src/OneLayer (Plane, Vertex, Edge, Polygon, Face, Polyhedron).          *)
(*                                                                         *)
(* Objects live in a heap: one sequence per class, an object's identity is *)
(* its index in that sequence, and None is 0.  Every method that the code  *)
(* writes as "mutate and return" is an operator that takes the heap and    *)
(* returns a record holding the new heap (field h) and the results.  A     *)
(* raised Python exception is the heap's field err (the heap keeps every   *)
(* mutation made before the raise, as the interpreter does).               *)
(*                                                                         *)
(* Lengths are integers in units of Plane.planeTolerance (0.00005), so a   *)
(* coordinate difference of 1 is "within tolerance" and 2 is not.          *)
(***************************************************************************)
EXTENDS Integers, Sequences, FiniteSets, TLC

VARIABLES
    verts,      \* Vertex objects: <<x, y, z>>
    edges,      \* Edge objects: [end1, end2, front, back, splitterVertex]
    polys,      \* Polygon objects: [edges, front, back, splitterEdge]
    faces,      \* Face objects: [isSplitter, orientation, polygon, color]
    polyhedra,  \* Polyhedron objects: [faces, color, front, back]
    roots,      \* the Polyhedron objects the driver built, in order
    last,       \* the call made by the latest step, with its results
    nCalls      \* number of calls made so far

vars == <<verts, edges, polys, faces, polyhedra, roots, last, nCalls>>

None == 0

(***************************************************************************)
(* Small arithmetic helpers.                                               *)
(***************************************************************************)
Abs(x) == IF x < 0 THEN -x ELSE x

Sgn(x) == IF x > 0 THEN 1 ELSE IF x < 0 THEN -1 ELSE 0

SeqToSet(s) == { s[i] : i \in 1..Len(s) }

Reverse(s) == [ i \in 1..Len(s) |-> s[Len(s) + 1 - i] ]

(***************************************************************************)
(* The heap.                                                               *)
(***************************************************************************)
Heap(v, e, p, f, ph) ==
    [verts |-> v, edges |-> e, polys |-> p, faces |-> f, polyhedra |-> ph, err |-> ""]

EmptyHeap == Heap(<<>>, <<>>, <<>>, <<>>, <<>>)

Raise(h, what) == IF h.err # "" THEN h ELSE [h EXCEPT !.err = what]

Ok(h) == h.err = ""

(***************************************************************************)
(* Vertex.                                                                 *)
(***************************************************************************)
\* Vertex.__init__: a new vertex object with the given coordinates.
Vertex(h, c) ==
    [h |-> [h EXCEPT !.verts = Append(@, c)], r |-> Len(h.verts) + 1]

\* Squared Euclidean distance between two coordinate triples.
dist2(c1, c2) ==
    (c1[1] - c2[1]) * (c1[1] - c2[1]) + (c1[2] - c2[2]) * (c1[2] - c2[2])
        + (c1[3] - c2[3]) * (c1[3] - c2[3])

(***************************************************************************)
(* Plane.  A plane is the value [A, B, C, D] of the equation               *)
(* Ax + By + Cz = D after Plane.__init__ has normalised it.                *)
(***************************************************************************)
\* 0.00005 in model units.
planeTolerance == 1

\* Plane.planeNumber: Ax + By + Cz (terms with a zero coefficient add nothing).
planeNumber(pl, x, y, z) == pl.A * x + pl.B * y + pl.C * z

\* Plane.planeZero: Ax + By + Cz - D.
planeZero(pl, x, y, z) == planeNumber(pl, x, y, z) - pl.D

\* Plane.whichSide for a point given by its coordinates.
whichSideC(pl, c) ==
    LET pn == planeZero(pl, c[1], c[2], c[3])
    IN  IF Abs(pn) <= planeTolerance THEN 0
        ELSE IF pn > 0 THEN 1 ELSE -1

\* Plane.whichSide for a vertex object.
whichSide(h, pl, v) == whichSideC(pl, h.verts[v])

\* Plane.containsPoint
containsPoint(h, pl, v) ==
    LET c == h.verts[v] IN Abs(planeZero(pl, c[1], c[2], c[3])) <= planeTolerance

\* Plane.intersection: where the segment point1-point2 meets the plane.  With
\* t = numerator / divisor, "isclose(t, 0, abs_tol = 0.00005)" is
\* 20000 * |numerator| <= |divisor|.  The new vertex's coordinates are
\* point1 + t * (point2 - point1); the quotient is exact for a segment
\* parallel to a coordinate axis cut by a plane normal to that axis.
intersection(h, pl, point1, point2) ==
    LET c1 == h.verts[point1]
        c2 == h.verts[point2]
        divisor == planeNumber(pl, c2[1] - c1[1], c2[2] - c1[2], c2[3] - c1[3])
        numerator == -planeZero(pl, c1[1], c1[2], c1[3])
        n == IF divisor < 0 THEN -numerator ELSE numerator
        d == Abs(divisor)
        At(i) == c1[i] + (n * (c2[i] - c1[i])) \div d
    IN  IF divisor = 0 THEN [h |-> h, r |-> None]
        ELSE IF Abs(numerator) <= d \div 20000 THEN [h |-> h, r |-> point1]
        ELSE IF Abs(numerator - divisor) <= d \div 20000 THEN [h |-> h, r |-> point2]
        ELSE IF 0 < n /\ n < d THEN Vertex(h, <<At(1), At(2), At(3)>>)
        ELSE [h |-> h, r |-> None]

(***************************************************************************)
(* EdgeDictionary, as used for Edge.allEdges: every Edge ever constructed  *)
(* is inserted, so the dictionary is the heap's edge sequence.             *)
(***************************************************************************)
\* Edge.hasEnd
hasEnd(h, e, v) == h.edges[e].end1 = v \/ h.edges[e].end2 = v

\* Edge.oppositeFrom
oppositeFrom(h, e, v) == IF v = h.edges[e].end1 THEN h.edges[e].end2 ELSE h.edges[e].end1

\* EdgeDictionary.find2 on Edge.allEdges: an edge incident on both vertices.
\* (An absent key or an empty intersection gives None.  The edge is unique
\* whenever vertex1 # vertex2, see EdgesUnique.)
find2(h, vertex1, vertex2) ==
    LET both == { e \in 1..Len(h.edges) : hasEnd(h, e, vertex1) /\ hasEnd(h, e, vertex2) }
    IN  IF both = {} THEN None ELSE CHOOSE e \in both : \A o \in both : e <= o

(***************************************************************************)
(* Edge.                                                                   *)
(***************************************************************************)
\* length3( v ) < 0.00005 for the vector between two vertices: less than one
\* model unit.
UltraShort(c1, c2) ==
    /\ Abs(c1[1] - c2[1]) < 1 /\ Abs(c1[2] - c2[2]) < 1 /\ Abs(c1[3] - c2[3]) < 1
    /\ dist2(c1, c2) < 1

\* Edge.__init__ without the look for an edge that already exists.
EdgeUnchecked(h, vertex1, vertex2) ==
    IF UltraShort(h.verts[vertex1], h.verts[vertex2])
    THEN [h |-> Raise(h, "RuntimeError: Creating ultra short edge"), r |-> None]
    ELSE [h |-> [h EXCEPT !.edges = Append(@, [end1 |-> vertex1, end2 |-> vertex2,
                                               front |-> None, back |-> None,
                                               splitterVertex |-> None])],
          r |-> Len(h.edges) + 1]

\* Edge.__init__
Edge(h, vertex1, vertex2) ==
    IF find2(h, vertex1, vertex2) # None
    THEN [h |-> Raise(h, "RuntimeError: Creating edge that already exists."), r |-> None]
    ELSE IF UltraShort(h.verts[vertex1], h.verts[vertex2])
    THEN [h |-> Raise(h, "RuntimeError: Creating ultra short edge"), r |-> None]
    ELSE [h |-> [h EXCEPT !.edges = Append(@, [end1 |-> vertex1, end2 |-> vertex2,
                                               front |-> None, back |-> None,
                                               splitterVertex |-> None])],
          r |-> Len(h.edges) + 1]

\* Edge.vectorAlong (without the homogeneous 4th component)
vectorAlong(h, e) ==
    LET a == h.verts[h.edges[e].end1]
        b == h.verts[h.edges[e].end2]
    IN  <<b[1] - a[1], b[2] - a[2], b[3] - a[3]>>

\* Edge.isSmallSplit: splitter.distance( end ) / self.length() < 0.005, that
\* is 200 * distance < length, compared on the squares.
isSmallSplit(h, e, splitter, end) ==
    LET d2 == dist2(h.verts[splitter], h.verts[end])
        l2 == dist2(h.verts[h.edges[e].end1], h.verts[h.edges[e].end2])
    IN  d2 < (l2 + 39999) \div 40000

\* makeSplitEdge as it would be without the lookup of an existing edge.
makeSplitEdgeNoLookup(h, newFront, newBack, newSplitter) ==
    CHOOSE out \in {
        IF ~Ok(made.h) THEN made
        ELSE [h |-> [made.h EXCEPT !.edges[made.r] =
                        [@ EXCEPT !.front = newFront, !.back = newBack,
                                  !.splitterVertex = newSplitter]],
              r |-> made.r]
        : made \in { Edge(h, oppositeFrom(h, newFront, newSplitter),
                             oppositeFrom(h, newBack, newSplitter)) } } : TRUE

\* makeSplitEdge storing the front part as the new edge's back part too.
makeSplitEdgeFrontTwice(h, newFront, newBack, newSplitter) ==
    LET frontEnd == oppositeFrom(h, newFront, newSplitter)
        backEnd == oppositeFrom(h, newBack, newSplitter)
    IN  CHOOSE out \in {
            IF existingEdge # None THEN [h |-> h, r |-> existingEdge]
            ELSE CHOOSE out \in {
                    IF ~Ok(made.h) THEN made
                    ELSE [h |-> [made.h EXCEPT !.edges[made.r] =
                                    [@ EXCEPT !.front = newFront, !.back = newFront,
                                              !.splitterVertex = newSplitter]],
                          r |-> made.r]
                    : made \in { Edge(h, frontEnd, backEnd) } } : TRUE
            : existingEdge \in { find2(h, frontEnd, backEnd) } } : TRUE

\* makeSplitEdge
makeSplitEdge(h, newFront, newBack, newSplitter) ==
    LET frontEnd == oppositeFrom(h, newFront, newSplitter)
        backEnd == oppositeFrom(h, newBack, newSplitter)
    IN  CHOOSE out \in {
            IF existingEdge # None THEN [h |-> h, r |-> existingEdge]
            ELSE CHOOSE out \in {
                    IF ~Ok(made.h) THEN made
                    ELSE [h |-> [made.h EXCEPT !.edges[made.r] =
                                    [@ EXCEPT !.front = newFront, !.back = newBack,
                                              !.splitterVertex = newSplitter]],
                          r |-> made.r]
                    : made \in { Edge(h, frontEnd, backEnd) } } : TRUE
            : existingEdge \in { find2(h, frontEnd, backEnd) } } : TRUE

\* The triple Edge.split returns, with the heap it leaves.
SplitResult(h, f, b, s) == [h |-> h, front |-> f, back |-> b, splitter |-> s]

\* The split of an unsplit edge with front and back chosen by the side of
\* end2 instead of end1.
SplitUnsplitEdgeBySide2(h, e, pl, side1, side2) ==
    LET E == h.edges[e]
    IN  CHOOSE out \in {
            IF iv.r = None
            THEN SplitResult(Raise(iv.h, "AttributeError: 'NoneType' object has no attribute 'distance'"),
                             None, None, None)
            ELSE IF isSmallSplit(iv.h, e, iv.r, E.end2)
            THEN IF side1 > 0 THEN SplitResult(iv.h, e, None, E.end2)
                 ELSE IF side1 < 0 THEN SplitResult(iv.h, None, e, E.end2)
                 ELSE SplitResult(iv.h, e, e, None)
            ELSE IF isSmallSplit(iv.h, e, iv.r, E.end1)
            THEN IF side2 > 0 THEN SplitResult(iv.h, e, None, E.end1)
                 ELSE IF side2 < 0 THEN SplitResult(iv.h, None, e, E.end1)
                 ELSE SplitResult(iv.h, e, e, None)
            ELSE CHOOSE out \in {
                    IF ~Ok(sub1.h) THEN SplitResult(sub1.h, None, None, None)
                    ELSE CHOOSE out \in {
                            IF ~Ok(sub2.h) THEN SplitResult(sub2.h, None, None, None)
                            ELSE LET newFront == IF side2 > 0 THEN sub1.r ELSE sub2.r
                                     newBack == IF side2 > 0 THEN sub2.r ELSE sub1.r
                                 IN  SplitResult([sub2.h EXCEPT !.edges[e] =
                                                    [@ EXCEPT !.front = newFront, !.back = newBack,
                                                              !.splitterVertex = iv.r]],
                                                 newFront, newBack, iv.r)
                            : sub2 \in { Edge(sub1.h, E.end2, iv.r) } } : TRUE
                    : sub1 \in { Edge(iv.h, E.end1, iv.r) } } : TRUE
            : iv \in { intersection(h, pl, E.end1, E.end2) } } : TRUE

\* Edge.split, lines 138-193: an unsplit edge whose ends are strictly on
\* opposite sides of the plane.  iv is the splitter vertex that
\* plane.intersection returns, sub1 and sub2 are subEdge1 and subEdge2.
SplitUnsplitEdge(h, e, pl, side1, side2) ==
    LET E == h.edges[e]
    IN  CHOOSE out \in {
            IF iv.r = None
            THEN SplitResult(Raise(iv.h, "AttributeError: 'NoneType' object has no attribute 'distance'"),
                             None, None, None)
            ELSE IF isSmallSplit(iv.h, e, iv.r, E.end2)
            THEN IF side1 > 0 THEN SplitResult(iv.h, e, None, E.end2)
                 ELSE IF side1 < 0 THEN SplitResult(iv.h, None, e, E.end2)
                 ELSE SplitResult(iv.h, e, e, None)
            ELSE IF isSmallSplit(iv.h, e, iv.r, E.end1)
            THEN IF side2 > 0 THEN SplitResult(iv.h, e, None, E.end1)
                 ELSE IF side2 < 0 THEN SplitResult(iv.h, None, e, E.end1)
                 ELSE SplitResult(iv.h, e, e, None)
            ELSE CHOOSE out \in {
                    IF ~Ok(sub1.h) THEN SplitResult(sub1.h, None, None, None)
                    ELSE CHOOSE out \in {
                            IF ~Ok(sub2.h) THEN SplitResult(sub2.h, None, None, None)
                            ELSE LET newFront == IF side1 > 0 THEN sub1.r ELSE sub2.r
                                     newBack == IF side1 > 0 THEN sub2.r ELSE sub1.r
                                 IN  SplitResult([sub2.h EXCEPT !.edges[e] =
                                                    [@ EXCEPT !.front = newFront, !.back = newBack,
                                                              !.splitterVertex = iv.r]],
                                                 newFront, newBack, iv.r)
                            : sub2 \in { Edge(sub1.h, E.end2, iv.r) } } : TRUE
                    : sub1 \in { Edge(iv.h, E.end1, iv.r) } } : TRUE
            : iv \in { intersection(h, pl, E.end1, E.end2) } } : TRUE

\* The trivial cases with the wrong end returned for an edge behind the plane
\* that touches it at end2.
SplitTrivialEdgeWrongEnd(h, e, side1, side2) ==
    LET E == h.edges[e]
    IN  IF side1 < 0 /\ side2 < 0 THEN SplitResult(h, None, e, None)
        ELSE IF side1 < 0 /\ side2 = 0 THEN SplitResult(h, None, e, E.end1)
        ELSE IF side1 = 0 /\ side2 < 0 THEN SplitResult(h, None, e, E.end1)
        ELSE IF side1 = 0 /\ side2 = 0 THEN SplitResult(h, e, e, None)
        ELSE IF side1 = 0 /\ side2 > 0 THEN SplitResult(h, e, None, E.end1)
        ELSE IF side1 > 0 /\ side2 = 0 THEN SplitResult(h, e, None, E.end2)
        ELSE SplitResult(h, e, None, None)

\* Edge.split, lines 102-136: the cases decided by the sides of the two ends
\* alone.  (Reached only when the ends are not strictly on opposite sides.)
SplitTrivialEdge(h, e, side1, side2) ==
    LET E == h.edges[e]
    IN  IF side1 < 0 /\ side2 < 0 THEN SplitResult(h, None, e, None)
        ELSE IF side1 < 0 /\ side2 = 0 THEN SplitResult(h, None, e, E.end2)
        ELSE IF side1 = 0 /\ side2 < 0 THEN SplitResult(h, None, e, E.end1)
        ELSE IF side1 = 0 /\ side2 = 0 THEN SplitResult(h, e, e, None)
        ELSE IF side1 = 0 /\ side2 > 0 THEN SplitResult(h, e, None, E.end1)
        ELSE IF side1 > 0 /\ side2 = 0 THEN SplitResult(h, e, None, E.end2)
        ELSE SplitResult(h, e, None, None)

\* The result of a joined edge: SplitResult(f, b, s) on the heap made.h with
\* made.r in the place of None, or the exception that makeSplitEdge raised.
Joined(made, f, b, s) ==
    IF ~Ok(made.h) THEN SplitResult(made.h, None, None, None)
    ELSE SplitResult(made.h, IF f = None THEN made.r ELSE f,
                     IF b = None THEN made.r ELSE b, s)

RECURSIVE EdgeSplit(_, _, _)

\* The front sub-edge's part of Edge.split without the exchange of front and
\* back for a plane that faces the other way.
SplitViaFrontNoFlip(h, e, pl) ==
    LET E == h.edges[e]
        frontEnd == oppositeFrom(h, E.front, E.splitterVertex)
        Done(r) == [done |-> TRUE, res |-> r]
    IN  CHOOSE out \in {
            IF ~Ok(fs.h) THEN Done(SplitResult(fs.h, None, None, None))
            ELSE IF fs.front # None /\ fs.back # None /\ fs.splitter # None
            THEN IF hasEnd(fs.h, fs.front, E.splitterVertex)
                 THEN Done(Joined(makeSplitEdge(fs.h, E.back, fs.front, E.splitterVertex),
                                  None, fs.back, fs.splitter))
                 ELSE Done(Joined(makeSplitEdge(fs.h, fs.back, E.back, E.splitterVertex),
                                  fs.front, None, fs.splitter))
            ELSE IF fs.front # None /\ fs.back = None /\ fs.splitter = E.splitterVertex
            THEN Done(SplitResult(fs.h, E.front, E.back, E.splitterVertex))
            ELSE IF fs.front = None /\ fs.back # None /\ fs.splitter = E.splitterVertex
            THEN Done(SplitResult(fs.h, E.front, E.back, E.splitterVertex))
            ELSE IF fs.front # None /\ fs.back = None /\ fs.splitter = frontEnd
            THEN Done(SplitResult(fs.h, e, None, frontEnd))
            ELSE IF fs.front = None /\ fs.back # None /\ fs.splitter = frontEnd
            THEN Done(SplitResult(fs.h, None, e, frontEnd))
            ELSE [done |-> FALSE, res |-> SplitResult(fs.h, None, None, None)]
            : fs \in { EdgeSplit(h, E.front, pl) } } : TRUE

\* Edge.split, lines 229-257: what the split of the front sub-edge (fs holds
\* frontFront, frontBack and frontSplitter) means for the whole edge; done
\* is FALSE when none of the five cases applies.
SplitViaFront(h, e, pl) ==
    LET E == h.edges[e]
        frontEnd == oppositeFrom(h, E.front, E.splitterVertex)
        Done(r) == [done |-> TRUE, res |-> r]
    IN  CHOOSE out \in {
            IF ~Ok(fs.h) THEN Done(SplitResult(fs.h, None, None, None))
            ELSE IF fs.front # None /\ fs.back # None /\ fs.splitter # None
            THEN IF hasEnd(fs.h, fs.front, E.splitterVertex)
                 THEN Done(Joined(makeSplitEdge(fs.h, E.back, fs.front, E.splitterVertex),
                                  None, fs.back, fs.splitter))
                 ELSE Done(Joined(makeSplitEdge(fs.h, fs.back, E.back, E.splitterVertex),
                                  fs.front, None, fs.splitter))
            ELSE IF fs.front # None /\ fs.back = None /\ fs.splitter = E.splitterVertex
            THEN Done(SplitResult(fs.h, E.front, E.back, E.splitterVertex))
            ELSE IF fs.front = None /\ fs.back # None /\ fs.splitter = E.splitterVertex
            THEN Done(SplitResult(fs.h, E.back, E.front, E.splitterVertex))
            ELSE IF fs.front # None /\ fs.back = None /\ fs.splitter = frontEnd
            THEN Done(SplitResult(fs.h, e, None, frontEnd))
            ELSE IF fs.front = None /\ fs.back # None /\ fs.splitter = frontEnd
            THEN Done(SplitResult(fs.h, None, e, frontEnd))
            ELSE [done |-> FALSE, res |-> SplitResult(fs.h, None, None, None)]
            : fs \in { EdgeSplit(h, E.front, pl) } } : TRUE

\* The back sub-edge's part of Edge.split returning the front sub-edge as it
\* is, not joined to the part of the back sub-edge beside it.
SplitViaBackUnjoined(h, e, pl) ==
    LET E == h.edges[e]
        backEnd == oppositeFrom(h, E.back, E.splitterVertex)
        unexpected == "RuntimeError: Edge.split found unexpected relationship"
    IN  IF E.back = None THEN SplitResult(Raise(h, unexpected), None, None, None)
        ELSE CHOOSE out \in {
            IF ~Ok(bs.h) THEN SplitResult(bs.h, None, None, None)
            ELSE IF bs.front # None /\ bs.back # None /\ bs.splitter # None
            THEN IF hasEnd(bs.h, bs.front, E.splitterVertex)
                 THEN SplitResult(bs.h, E.front, bs.back, bs.splitter)
                 ELSE SplitResult(bs.h, bs.front, E.front, bs.splitter)
            ELSE IF bs.front # None /\ bs.back = None /\ bs.splitter = backEnd
            THEN SplitResult(bs.h, e, None, backEnd)
            ELSE IF bs.front = None /\ bs.back # None /\ bs.splitter = backEnd
            THEN SplitResult(bs.h, None, e, backEnd)
            ELSE SplitResult(Raise(bs.h, unexpected), None, None, None)
            : bs \in { EdgeSplit(h, E.back, pl) } } : TRUE

\* Edge.split, lines 263-287: the same for the back sub-edge (bs holds
\* backFront, backBack and backSplitter), and the RuntimeError when nothing
\* applies.
SplitViaBack(h, e, pl) ==
    LET E == h.edges[e]
        backEnd == oppositeFrom(h, E.back, E.splitterVertex)
        unexpected == "RuntimeError: Edge.split found unexpected relationship"
    IN  IF E.back = None THEN SplitResult(Raise(h, unexpected), None, None, None)
        ELSE CHOOSE out \in {
            IF ~Ok(bs.h) THEN SplitResult(bs.h, None, None, None)
            ELSE IF bs.front # None /\ bs.back # None /\ bs.splitter # None
            THEN IF hasEnd(bs.h, bs.front, E.splitterVertex)
                 THEN Joined(makeSplitEdge(bs.h, E.front, bs.front, E.splitterVertex),
                             None, bs.back, bs.splitter)
                 ELSE Joined(makeSplitEdge(bs.h, bs.back, E.front, E.splitterVertex),
                             bs.front, None, bs.splitter)
            ELSE IF bs.front # None /\ bs.back = None /\ bs.splitter = backEnd
            THEN SplitResult(bs.h, e, None, backEnd)
            ELSE IF bs.front = None /\ bs.back # None /\ bs.splitter = backEnd
            THEN SplitResult(bs.h, None, e, backEnd)
            ELSE SplitResult(Raise(bs.h, unexpected), None, None, None)
            : bs \in { EdgeSplit(h, E.back, pl) } } : TRUE

\* Edge.split
EdgeSplit(h, e, pl) ==
    LET E == h.edges[e]
        side1 == whichSide(h, pl, E.end1)
        side2 == whichSide(h, pl, E.end2)
    IN  IF side1 * side2 >= 0 THEN SplitTrivialEdge(h, e, side1, side2)
        ELSE IF E.front = None /\ E.back = None
        THEN SplitUnsplitEdge(h, e, pl, side1, side2)
        ELSE IF E.front = None THEN SplitViaBack(h, e, pl)
        ELSE CHOOSE out \in {
                IF viaFront.done THEN viaFront.res ELSE SplitViaBack(viaFront.res.h, e, pl)
                : viaFront \in { SplitViaFront(h, e, pl) } } : TRUE

(***************************************************************************)
(* Vectors (Utilities/VectorOps.py) and the Edge methods that join edges.  *)
(***************************************************************************)
\* dot3
dot3(v1, v2) == v1[1] * v2[1] + v1[2] * v2[2] + v1[3] * v2[3]

\* cross
cross(v1, v2) ==
    << v1[2] * v2[3] - v2[2] * v1[3],
       v2[1] * v1[3] - v1[1] * v2[3],
       v1[1] * v2[2] - v2[1] * v1[2] >>

\* Edge.vectorTo (without the homogeneous 4th component)
vectorTo(h, e, target) ==
    LET E == h.edges[e]
        T == h.edges[target]
        c1 == h.verts[E.end1]
        c2 == h.verts[E.end2]
    IN  IF E.end2 = T.end1 \/ E.end2 = T.end2
        THEN <<c2[1] - c1[1], c2[2] - c1[2], c2[3] - c1[3]>>
        ELSE <<c1[1] - c2[1], c1[2] - c2[2], c1[3] - c2[3]>>

\* Edge.isParallelTo: parallelism( other ) <= 1.0e-9.  The cross product of
\* two integer vectors is an integer vector, and for the edge lengths of this
\* model a non-zero one gives a parallelism far above 1.0e-9.
isParallelTo(h, e, other) ==
    cross(vectorAlong(h, e), vectorAlong(h, other)) = <<0, 0, 0>>

\* Edge.extendWith
extendWith(h, e, extension) ==
    LET X == h.edges[extension]
    IN  IF hasEnd(h, e, X.end1) THEN makeSplitEdge(h, e, extension, X.end1)
        ELSE IF hasEnd(h, e, X.end2) THEN makeSplitEdge(h, e, extension, X.end2)
        ELSE [h |-> Raise(h, "ValueError: Edges have no common vertex in Edge.extendWith"),
              r |-> None]

\* commonParent making the two edges the children of the parent it finds.
commonParentRelinks(h, e, other) ==
    LET E == h.edges[e]
        sharedEnd == IF hasEnd(h, other, E.end1) THEN E.end1
                     ELSE IF hasEnd(h, other, E.end2) THEN E.end2
                     ELSE None
    IN  IF ~isParallelTo(h, e, other) THEN [h |-> h, r |-> None]
        ELSE IF sharedEnd = None THEN [h |-> h, r |-> None]
        ELSE CHOOSE out \in {
                IF existingParent # None
                THEN [h |-> [h EXCEPT !.edges[existingParent] =
                                [@ EXCEPT !.front = e, !.back = other,
                                          !.splitterVertex = sharedEnd]],
                      r |-> existingParent]
                ELSE extendWith(h, e, other)
                : existingParent \in { find2(h, oppositeFrom(h, e, sharedEnd),
                                                oppositeFrom(h, other, sharedEnd)) } } : TRUE

\* Edge.commonParent
commonParent(h, e, other) ==
    LET E == h.edges[e]
        sharedEnd == IF hasEnd(h, other, E.end1) THEN E.end1
                     ELSE IF hasEnd(h, other, E.end2) THEN E.end2
                     ELSE None
    IN  IF ~isParallelTo(h, e, other) THEN [h |-> h, r |-> None]
        ELSE IF sharedEnd = None THEN [h |-> h, r |-> None]
        ELSE CHOOSE out \in {
                IF existingParent # None THEN [h |-> h, r |-> existingParent]
                ELSE extendWith(h, e, other)
                : existingParent \in { find2(h, oppositeFrom(h, e, sharedEnd),
                                                oppositeFrom(h, other, sharedEnd)) } } : TRUE

RECURSIVE hoistInto(_, _, _)

\* hoistInto putting the common parent after the rest of the list without
\* looking for a parent it has in common with the edge before it.
hoistIntoOnce(h, e, edgeList) ==
    LET n == Len(edgeList)
    IN  IF n = 0 THEN [h |-> h, r |-> <<e>>]
        ELSE CHOOSE out \in {
                IF ~Ok(common.h) THEN [h |-> common.h, r |-> edgeList]
                ELSE IF common.r # None
                THEN [h |-> common.h, r |-> Append(SubSeq(edgeList, 1, n - 1), common.r)]
                ELSE [h |-> common.h, r |-> Append(edgeList, e)]
                : common \in { commonParent(h, e, edgeList[n]) } } : TRUE

\* Edge.hoistInto
hoistInto(h, e, edgeList) ==
    LET n == Len(edgeList)
    IN  IF n = 0 THEN [h |-> h, r |-> <<e>>]
        ELSE CHOOSE out \in {
                IF ~Ok(common.h) THEN [h |-> common.h, r |-> edgeList]
                ELSE IF common.r # None
                THEN hoistInto(common.h, common.r, SubSeq(edgeList, 1, n - 1))
                ELSE [h |-> common.h, r |-> Append(edgeList, e)]
                : common \in { commonParent(h, e, edgeList[n]) } } : TRUE

RECURSIVE HoistAll(_, _, _)

\* "for e in es : newEdges = e.hoistInto( newEdges )", from the i-th edge on.
HoistAll(acc, es, i) ==
    IF i > Len(es) \/ ~Ok(acc.h) THEN acc
    ELSE CHOOSE out \in {
            HoistAll(hoisted, es, i + 1)
            : hoisted \in { hoistInto(acc.h, es[i], acc.r) } } : TRUE

IndexError(h, r) == [h |-> Raise(h, "IndexError: list index out of range"), r |-> r]

RECURSIVE MergeLastIntoFirst(_, _)

\* checkEndParents, lines 604-611: while the first and the last edge have a
\* common parent, it replaces the first and the last is dropped.
MergeLastIntoFirst(h, es) ==
    LET n == Len(es)
    IN  IF n = 0 THEN IndexError(h, es)
        ELSE CHOOSE out \in {
                IF ~Ok(common.h) \/ common.r = None THEN [h |-> common.h, r |-> es]
                ELSE MergeLastIntoFirst(common.h,
                                        SubSeq([es EXCEPT ![1] = common.r], 1, n - 1))
                : common \in { commonParent(h, es[1], es[n]) } } : TRUE

RECURSIVE MergeFirstIntoSecond(_, _)

\* checkEndParents, lines 619-626: the same for the first and second edge.
MergeFirstIntoSecond(h, es) ==
    LET n == Len(es)
    IN  IF n < 2 THEN IndexError(h, es)
        ELSE CHOOSE out \in {
                IF ~Ok(common.h) \/ common.r = None THEN [h |-> common.h, r |-> es]
                ELSE MergeFirstIntoSecond(common.h,
                                          SubSeq([es EXCEPT ![2] = common.r], 2, n))
                : common \in { commonParent(h, es[1], es[2]) } } : TRUE

\* checkEndParents
checkEndParents(h, es) ==
    CHOOSE out \in {
        IF ~Ok(first.h) THEN first ELSE MergeFirstIntoSecond(first.h, first.r)
        : first \in { MergeLastIntoFirst(h, es) } } : TRUE

(***************************************************************************)
(* Plane construction and Polygon.                                         *)
(***************************************************************************)
\* Plane.__init__: the coefficients divided by the length of <<A, B, C>>.
\* Every normal of this model is parallel to an axis, so the length is the
\* absolute value of its one non-zero component, and it divides D.
Plane(A, B, C, D) ==
    LET magnitude == Abs(A) + Abs(B) + Abs(C)
    IN  [A |-> A \div magnitude, B |-> B \div magnitude,
         C |-> C \div magnitude, D |-> D \div magnitude]

\* Plane.normal (without the homogeneous 4th component)
normal(pl) == <<pl.A, pl.B, pl.C>>

\* Plane.containsEdge
containsEdge(h, pl, e) ==
    containsPoint(h, pl, h.edges[e].end1) /\ containsPoint(h, pl, h.edges[e].end2)

\* Polygon.__init__ comparing each edge with the next but not the last edge
\* with the first.
PolygonNoWrapAround(h, edgeList) ==
    LET nEdges == Len(edgeList)
    IN  IF \E i \in 1..(nEdges - 1) : isParallelTo(h, edgeList[i], edgeList[i + 1])
        THEN [h |-> Raise(h, "RuntimeError: Polygon edges are parallel"), r |-> None]
        ELSE [h |-> [h EXCEPT !.polys = Append(@, [edges |-> edgeList, front |-> None,
                                                   back |-> None, splitterEdge |-> None])],
              r |-> Len(h.polys) + 1]

\* Polygon.__init__
Polygon(h, edgeList) ==
    LET nEdges == Len(edgeList)
    IN  IF \E i \in 1..nEdges : isParallelTo(h, edgeList[i], edgeList[(i % nEdges) + 1])
        THEN [h |-> Raise(h, "RuntimeError: Polygon edges are parallel"), r |-> None]
        ELSE [h |-> [h EXCEPT !.polys = Append(@, [edges |-> edgeList, front |-> None,
                                                   back |-> None, splitterEdge |-> None])],
              r |-> Len(h.polys) + 1]

\* Polygon.getNormal
getNormal(h, p, orientation) ==
    LET es == h.polys[p].edges
    IN  CHOOSE out \in {
            IF orientation < 0 THEN <<-n[1], -n[2], -n[3]>> ELSE n
            : n \in { cross(vectorTo(h, es[1], es[2]), vectorTo(h, es[2], es[3])) } } : TRUE

\* Polygon.getOrientation
getOrientation(h, p, reference) ==
    IF dot3(getNormal(h, p, 1), reference) > 0 THEN 1 ELSE -1

\* Polygon.plane
PolygonPlane(h, p, orientation) ==
    CHOOSE out \in {
        Plane(n[1], n[2], n[3], dot3(n, h.verts[h.edges[h.polys[p].edges[1]].end1]))
        : n \in { getNormal(h, p, orientation) } } : TRUE

\* Polygon.whichSide: the side of the mean of four of the polygon's edge
\* ends, decided on four times the plane's value there.
PolygonWhichSide(h, p, pl) ==
    LET es == h.polys[p].edges
        halfway == Len(es) \div 2
        pt1 == h.verts[h.edges[es[1]].end1]
        pt2 == h.verts[h.edges[es[1]].end2]
        pt3 == h.verts[h.edges[es[halfway + 1]].end1]
        pt4 == h.verts[h.edges[es[halfway + 1]].end2]
        Sum(i) == pt1[i] + pt2[i] + pt3[i] + pt4[i]
        planeNumber4 == planeNumber(pl, Sum(1), Sum(2), Sum(3)) - 4 * pl.D
    IN  IF Abs(planeNumber4) <= 4 * planeTolerance THEN 0
        ELSE IF planeNumber4 > 0 THEN 1 ELSE -1

\* Polygon.touchesPlane
touchesPlane(h, p, onSideEdges, offSideEdges, splitterVertices) ==
    /\ Len(onSideEdges) = Len(h.polys[p].edges) - 1
    /\ Len(offSideEdges) = 1
    /\ Len(splitterVertices) = 2
    /\ hasEnd(h, offSideEdges[1], splitterVertices[1])
    /\ hasEnd(h, offSideEdges[1], splitterVertices[2])

\* Polygon.sharedEdge
sharedEdge(h, p, other) ==
    LET es == h.polys[p].edges
        shared == { i \in 1..Len(es) : es[i] \in SeqToSet(h.polys[other].edges) }
    IN  IF shared = {}
        THEN [h |-> Raise(h, "ValueError: No shared edge found by Polygon.sharedEdge"),
              r |-> None]
        ELSE [h |-> h, r |-> es[CHOOSE i \in shared : \A j \in shared : i <= j]]

\* insertEdge putting the new edge in front of the list wherever it fits.
insertEdgeInFront(h, newEdge, edgeList) ==
    LET n == Len(edgeList)
        N == h.edges[newEdge]
        fits == { i \in 1..n :
                    \/ hasEnd(h, edgeList[i], N.end1) /\ hasEnd(h, edgeList[(i % n) + 1], N.end2)
                    \/ hasEnd(h, edgeList[i], N.end2) /\ hasEnd(h, edgeList[(i % n) + 1], N.end1) }
    IN  IF fits = {} THEN [h |-> Raise(h, "ValueError: No insertion point"), r |-> edgeList]
        ELSE [h |-> h, r |-> <<newEdge>> \o edgeList]

\* insertEdge
insertEdge(h, newEdge, edgeList) ==
    LET n == Len(edgeList)
        N == h.edges[newEdge]
        fits == { i \in 1..n :
                    \/ hasEnd(h, edgeList[i], N.end1) /\ hasEnd(h, edgeList[(i % n) + 1], N.end2)
                    \/ hasEnd(h, edgeList[i], N.end2) /\ hasEnd(h, edgeList[(i % n) + 1], N.end1) }
    IN  IF fits = {} THEN [h |-> Raise(h, "ValueError: No insertion point"), r |-> edgeList]
        ELSE CHOOSE out \in {
                [h |-> h, r |-> SubSeq(edgeList, 1, i) \o <<newEdge>> \o SubSeq(edgeList, i + 1, n)]
                : i \in { CHOOSE f \in fits : \A g \in fits : f <= g } } : TRUE

\* planeEdge
planeEdge(h, frontSplitter, backSplitter) ==
    IF frontSplitter = None THEN [h |-> h, r |-> backSplitter]
    ELSE IF backSplitter = None THEN [h |-> h, r |-> frontSplitter]
    ELSE CHOOSE out \in {
            IF ~Ok(common.h) \/ common.r # None THEN common
            ELSE [h |-> Raise(common.h, "ValueError: Splitters don't fit any pattern known to planeEdge"),
                  r |-> None]
            : common \in { commonParent(h, frontSplitter, backSplitter) } } : TRUE

\* list.index
IndexOf(s, x) ==
    LET at == { i \in 1..Len(s) : s[i] = x }
    IN  IF at = {} THEN 0 ELSE CHOOSE i \in at : \A j \in at : i <= j

\* makeSplitPolygon, lines 646-662: the edges of the two polygons around the
\* new one, without newSplitter.
EdgesAround(h, newFront, newBack, newSplitter) ==
    LET F == h.polys[newFront]
        B == h.polys[newBack]
        backEdges == IF dot3(getNormal(h, newFront, 1), getNormal(h, newBack, 1)) < 0
                     THEN Reverse(B.edges) ELSE B.edges
        frontI == IndexOf(F.edges, newSplitter)
        backI == IndexOf(backEdges, newSplitter)
    IN  IF frontI = 0 \/ backI = 0
        THEN [h |-> Raise(h, "ValueError: x is not in list"), r |-> <<>>]
        ELSE [h |-> h,
              r |-> SubSeq(F.edges, 1, frontI - 1)
                      \o SubSeq(backEdges, backI + 1, Len(backEdges))
                      \o SubSeq(backEdges, 1, backI - 1)
                      \o SubSeq(F.edges, frontI + 1, Len(F.edges))]

\* makeSplitPolygon
makeSplitPolygon(h, newFront, newBack, newSplitter) ==
    CHOOSE out \in {
        IF ~Ok(around.h) THEN [h |-> around.h, r |-> None]
        ELSE CHOOSE out \in {
            IF ~Ok(hoisted.h) THEN [h |-> hoisted.h, r |-> None]
            ELSE CHOOSE out \in {
                IF ~Ok(newEdges.h) THEN [h |-> newEdges.h, r |-> None]
                ELSE CHOOSE out \in {
                    IF ~Ok(newPolygon.h) THEN newPolygon
                    ELSE [h |-> [newPolygon.h EXCEPT !.polys[newPolygon.r] =
                                    [@ EXCEPT !.front = newFront, !.back = newBack,
                                              !.splitterEdge = newSplitter]],
                          r |-> newPolygon.r]
                    : newPolygon \in { Polygon(newEdges.h, newEdges.r) } } : TRUE
                : newEdges \in { checkEndParents(hoisted.h, hoisted.r) } } : TRUE
            : hoisted \in { HoistAll([h |-> around.h, r |-> <<>>], around.r, 1) } } : TRUE
        : around \in { EdgesAround(h, newFront, newBack, newSplitter) } } : TRUE

RECURSIVE SplitPolygonEdges(_, _, _, _)

\* Polygon.split, lines 104-131: the loop that splits every edge of an
\* unsplit polygon, from the i-th edge on.  acc holds the heap and the four
\* lists built so far; r is what the edge's split returns.
SplitPolygonEdges(acc, es, i, pl) ==
    IF i > Len(es) \/ ~Ok(acc.h) THEN acc
    ELSE CHOOSE out \in {
            IF ~Ok(r.h) THEN [acc EXCEPT !.h = r.h]
            ELSE CHOOSE out \in {
                    SplitPolygonEdges(next, es, i + 1, pl)
                    : next \in {
                        [h |-> r.h,
                         frontEdges |-> IF r.front # None /\ r.front # r.back
                                        THEN Append(acc.frontEdges, r.front) ELSE acc.frontEdges,
                         backEdges |-> IF r.back # None /\ r.back # r.front
                                       THEN Append(acc.backEdges, r.back) ELSE acc.backEdges,
                         inEdges |-> IF r.front # None /\ r.front = r.back
                                     THEN Append(acc.inEdges, r.front) ELSE acc.inEdges,
                         splitterVertices |->
                             IF r.splitter # None /\ r.splitter \notin SeqToSet(acc.splitterVertices)
                             THEN Append(acc.splitterVertices, r.splitter)
                             ELSE acc.splitterVertices] } } : TRUE
            : r \in { EdgeSplit(acc.h, es[i], pl) } } : TRUE

\* The triple Polygon.split returns, with the heap it leaves.
PolygonSplitResult(h, f, b, s) == [h |-> h, front |-> f, back |-> b, splitter |-> s]

\* Polygon.split, lines 170-175: the two polygons of a non-trivial split.
MakeParts(h, p, splitterEdge, frontEdges, backEdges) ==
    CHOOSE out \in {
        IF ~Ok(front.h) THEN PolygonSplitResult(front.h, None, None, None)
        ELSE CHOOSE out \in {
                IF ~Ok(back.h) THEN PolygonSplitResult(back.h, None, None, None)
                ELSE PolygonSplitResult([back.h EXCEPT !.polys[p].back = back.r],
                                        front.r, back.r, splitterEdge)
                : back \in { Polygon([front.h EXCEPT !.polys[p].front = front.r],
                                     backEdges) } } : TRUE
        : front \in { Polygon([h EXCEPT !.polys[p].splitterEdge = splitterEdge],
                              frontEdges) } } : TRUE

\* Polygon.split, lines 163-175: the non-trivial split of an unsplit polygon.
\* (nearCollinear only decides whether a warning is printed.)
SplitPolygonInTwo(h, p, frontEdges, backEdges, splitterVertices) ==
    CHOOSE out \in {
        IF ~Ok(made.h) THEN PolygonSplitResult(made.h, None, None, None)
        ELSE CHOOSE out \in {
            IF ~Ok(fronts.h) THEN PolygonSplitResult(fronts.h, None, None, None)
            ELSE CHOOSE out \in {
                IF ~Ok(backs.h) THEN PolygonSplitResult(backs.h, None, None, None)
                ELSE MakeParts(backs.h, p, made.r, fronts.r, backs.r)
                : backs \in { insertEdge(fronts.h, made.r, backEdges) } } : TRUE
            : fronts \in { insertEdge(made.h, made.r, frontEdges) } } : TRUE
        : made \in { Edge(h, splitterVertices[1], splitterVertices[2]) } } : TRUE

\* Polygon.split, lines 98-204: the first split of a polygon.
SplitUnsplitPolygon(h, p, pl) ==
    CHOOSE out \in {
        IF ~Ok(done.h) THEN PolygonSplitResult(done.h, None, None, None)
        ELSE IF /\ Len(done.frontEdges) >= 2 /\ Len(done.backEdges) >= 2
                /\ Len(done.splitterVertices) = 2
        THEN SplitPolygonInTwo(done.h, p, done.frontEdges, done.backEdges,
                               done.splitterVertices)
        ELSE IF Len(done.frontEdges) >= 3 /\ Len(done.backEdges) = 0
        THEN PolygonSplitResult(done.h, p, None, None)
        ELSE IF Len(done.backEdges) >= 3 /\ Len(done.frontEdges) = 0
        THEN PolygonSplitResult(done.h, None, p, None)
        ELSE IF touchesPlane(done.h, p, done.frontEdges, done.backEdges, done.splitterVertices)
        THEN PolygonSplitResult(done.h, p, None, done.backEdges[1])
        ELSE IF touchesPlane(done.h, p, done.frontEdges, done.inEdges, done.splitterVertices)
        THEN PolygonSplitResult(done.h, p, None, done.inEdges[1])
        ELSE IF touchesPlane(done.h, p, done.backEdges, done.frontEdges, done.splitterVertices)
        THEN PolygonSplitResult(done.h, None, p, done.frontEdges[1])
        ELSE IF touchesPlane(done.h, p, done.backEdges, done.inEdges, done.splitterVertices)
        THEN PolygonSplitResult(done.h, None, p, done.inEdges[1])
        ELSE PolygonSplitResult(
                Raise(done.h, "ValueError: First split of polygon doesn't match any known split rule."),
                None, None, None)
        : done \in { SplitPolygonEdges([h |-> h, frontEdges |-> <<>>, backEdges |-> <<>>,
                                        inEdges |-> <<>>, splitterVertices |-> <<>>],
                                       h.polys[p].edges, 1, pl) } } : TRUE

\* The triple <<f, b, s>> that Polygon.split returns with made.r (a polygon
\* or an edge that was looked up or made) as its front, back or splitter, or
\* the exception that making it raised.
WithMade(made, slot, f, b, s) ==
    IF ~Ok(made.h) THEN PolygonSplitResult(made.h, None, None, None)
    ELSE PolygonSplitResult(made.h, IF slot = "front" THEN made.r ELSE f,
                            IF slot = "back" THEN made.r ELSE b,
                            IF slot = "splitter" THEN made.r ELSE s)

\* Polygon.split, lines 265-273: the plane splits both parts of the polygon.
SplitBothParts(h, fs, bs) ==
    CHOOSE out \in {
        IF ~Ok(fShared.h) THEN PolygonSplitResult(fShared.h, None, None, None)
        ELSE CHOOSE out \in {
            IF ~Ok(newFront.h) THEN PolygonSplitResult(newFront.h, None, None, None)
            ELSE CHOOSE out \in {
                IF ~Ok(bShared.h) THEN PolygonSplitResult(bShared.h, None, None, None)
                ELSE CHOOSE out \in {
                    IF ~Ok(newBack.h) THEN PolygonSplitResult(newBack.h, None, None, None)
                    ELSE WithMade(commonParent(newBack.h, fs.splitter, bs.splitter),
                                  "splitter", newFront.r, newBack.r, None)
                    : newBack \in { makeSplitPolygon(bShared.h, fs.back, bs.back,
                                                     bShared.r) } } : TRUE
                : bShared \in { sharedEdge(newFront.h, fs.back, bs.back) } } : TRUE
            : newFront \in { makeSplitPolygon(fShared.h, fs.front, bs.front,
                                              fShared.r) } } : TRUE
        : fShared \in { sharedEdge(h, fs.front, bs.front) } } : TRUE

\* Polygon.split, lines 236-285: what the splits of the two parts of an
\* already split polygon mean for the whole polygon.  fs holds frontFront,
\* frontBack and frontSplitter, bs holds backFront, backBack and backSplitter.
CombinePartSplits(h, p, fs, bs) ==
    LET P == h.polys[p]
        frontSplit == fs.front # None /\ fs.back # None /\ fs.splitter # None
        backSplit == bs.front # None /\ bs.back # None /\ bs.splitter # None
    IN  IF fs.front = P.front /\ fs.back = None /\ bs.front = P.back /\ bs.back = None
        THEN WithMade(planeEdge(h, fs.splitter, bs.splitter), "splitter", p, None, None)
        ELSE IF fs.front = None /\ fs.back = P.front /\ bs.front = None /\ bs.back = P.back
        THEN WithMade(planeEdge(h, fs.splitter, bs.splitter), "splitter", None, p, None)
        ELSE IF fs.front = P.front /\ fs.back = None /\ fs.splitter = None /\ backSplit
        THEN WithMade(makeSplitPolygon(h, P.front, bs.front, P.splitterEdge),
                      "front", None, bs.back, bs.splitter)
        ELSE IF fs.front = None /\ fs.back = P.front /\ fs.splitter = None /\ backSplit
        THEN WithMade(makeSplitPolygon(h, bs.back, P.front, P.splitterEdge),
                      "back", bs.front, None, bs.splitter)
        ELSE IF frontSplit /\ bs.front = P.back /\ bs.back = None /\ bs.splitter = None
        THEN WithMade(makeSplitPolygon(h, fs.front, P.back, P.splitterEdge),
                      "front", None, fs.back, fs.splitter)
        ELSE IF frontSplit /\ bs.front = None /\ bs.back = P.back /\ bs.splitter = None
        THEN WithMade(makeSplitPolygon(h, fs.back, P.back, P.splitterEdge),
                      "back", fs.front, None, fs.splitter)
        ELSE IF frontSplit /\ backSplit
        THEN SplitBothParts(h, fs, bs)
        ELSE PolygonSplitResult(h, None, None, None)

RECURSIVE PolygonSplit(_, _, _)

\* Polygon.split, lines 207-285: the split of an already split polygon.
SplitSplitPolygon(h, p, pl) ==
    LET P == h.polys[p]
    IN  IF containsEdge(h, pl, P.splitterEdge)
        THEN IF PolygonWhichSide(h, P.front, pl) > 0
             THEN PolygonSplitResult(h, P.front, P.back, P.splitterEdge)
             ELSE PolygonSplitResult(h, P.back, P.front, P.splitterEdge)
        ELSE CHOOSE out \in {
                IF ~Ok(fs.h) THEN PolygonSplitResult(fs.h, None, None, None)
                ELSE CHOOSE out \in {
                        IF ~Ok(bs.h) THEN PolygonSplitResult(bs.h, None, None, None)
                        ELSE CombinePartSplits(bs.h, p, fs, bs)
                        : bs \in { PolygonSplit(fs.h, P.back, pl) } } : TRUE
                : fs \in { PolygonSplit(h, P.front, pl) } } : TRUE

\* Polygon.split
PolygonSplit(h, p, pl) ==
    LET P == h.polys[p]
    IN  IF \A i \in 1..Len(P.edges) : containsEdge(h, pl, P.edges[i])
        THEN PolygonSplitResult(h, p, p, None)
        ELSE IF P.front = None /\ P.back = None THEN SplitUnsplitPolygon(h, p, pl)
        ELSE SplitSplitPolygon(h, p, pl)

RECURSIVE FanFrom(_, _, _, _, _, _, _)

\* Polygon.draw, lines 505-511: the triangles from the common vertex to the
\* ends of the edges es[nextIndex], ..., up to but not including es[end].
FanFrom(h, es, common, current, nextIndex, end, orientation) ==
    IF nextIndex = end THEN <<>>
    ELSE LET next == oppositeFrom(h, es[nextIndex], current)
         IN  << <<common, current, next>> >>
                \o FanFrom(h, es, common, next, nextIndex + orientation, end, orientation)

\* DrawUnsplit going on to the edge es[end] as well.
DrawUnsplitPastEnd(h, p, orientation) ==
    LET es == h.polys[p].edges
        start == IF orientation > 0 THEN 1 ELSE Len(es)
        end == IF orientation > 0 THEN Len(es) ELSE 1
        nextIndex == start + orientation
        swap == hasEnd(h, es[nextIndex], h.edges[es[start]].end1)
        common == IF swap THEN h.edges[es[start]].end2 ELSE h.edges[es[start]].end1
        current == IF swap THEN h.edges[es[start]].end1 ELSE h.edges[es[start]].end2
    IN  FanFrom(h, es, common, current, nextIndex, end + orientation, orientation)

\* Polygon.draw, lines 475-511: the calls renderer.triangle( a, b, c, color )
\* made for an unsplit polygon, each as the triple of its vertices.  Indices
\* into the edge list count from 1.
DrawUnsplit(h, p, orientation) ==
    LET es == h.polys[p].edges
        start == IF orientation > 0 THEN 1 ELSE Len(es)
        end == IF orientation > 0 THEN Len(es) ELSE 1
        nextIndex == start + orientation
        swap == hasEnd(h, es[nextIndex], h.edges[es[start]].end1)
        common == IF swap THEN h.edges[es[start]].end2 ELSE h.edges[es[start]].end1
        current == IF swap THEN h.edges[es[start]].end1 ELSE h.edges[es[start]].end2
    IN  FanFrom(h, es, common, current, nextIndex, end, orientation)

RECURSIVE PolygonDraw(_, _, _)

\* Polygon.draw: the calls renderer.triangle in the order they are made.
PolygonDraw(h, p, orientation) ==
    IF h.polys[p].front # None /\ h.polys[p].back # None
    THEN PolygonDraw(h, h.polys[p].front, orientation)
            \o PolygonDraw(h, h.polys[p].back, orientation)
    ELSE DrawUnsplit(h, p, orientation)

(***************************************************************************)
(* Face: (isSplitter, orientation, polygon, color).  The class that        *)
(* Polyhedron.py uses is not among the sources (OneLayer/Face.py is an     *)
(* earlier, unrelated design), so these three definitions follow the       *)
(* specification's section 4.4 and the calls Polyhedron.py makes.          *)
(***************************************************************************)
\* Face.__init__
Face(h, isSplitter, orientation, polygon, color) ==
    [h |-> [h EXCEPT !.faces = Append(@, [isSplitter |-> isSplitter,
                                          orientation |-> orientation,
                                          polygon |-> polygon, color |-> color])],
     r |-> Len(h.faces) + 1]

\* Face.plane: the polygon's plane, its normal pointing out of the polyhedron.
FacePlane(h, f) == PolygonPlane(h, h.faces[f].polygon, h.faces[f].orientation)

\* Face.split: the polygon's split (r), each part wrapped in a new Face whose
\* normal points the way this face's normal does.
FaceSplit(h, f, pl) ==
    LET F == h.faces[f]
    IN  CHOOSE out \in {
            IF ~Ok(r.h) THEN [h |-> r.h, front |-> None, back |-> None, splitter |-> None]
            ELSE CHOOSE out \in {
                CHOOSE out \in {
                    CHOOSE out \in {
                        [h |-> newBack.h, front |-> newFront.r, back |-> newBack.r,
                         splitter |-> r.splitter]
                        : newBack \in {
                            IF r.back = None THEN [h |-> newFront.h, r |-> None]
                            ELSE Face(newFront.h, F.isSplitter,
                                      getOrientation(newFront.h, r.back, outward),
                                      r.back, F.color) } } : TRUE
                    : newFront \in {
                        IF r.front = None THEN [h |-> r.h, r |-> None]
                        ELSE Face(r.h, F.isSplitter, getOrientation(r.h, r.front, outward),
                                  r.front, F.color) } } : TRUE
                : outward \in { getNormal(h, F.polygon, F.orientation) } } : TRUE
            : r \in { PolygonSplit(h, F.polygon, pl) } } : TRUE

(***************************************************************************)
(* Polyhedron.                                                             *)
(***************************************************************************)
\* The Polyhedron object that __init__ leaves, appended to the heap.
NewPolyhedron(h, faceList, color) ==
    [h |-> [h EXCEPT !.polyhedra = Append(@, [faces |-> faceList, color |-> color,
                                              front |-> None, back |-> None])],
     r |-> Len(h.polyhedra) + 1]

\* EdgeDictionary.find2 on a dictionary holding the edges of the set dict.
DictFind2(h, dict, vertex1, vertex2) ==
    LET both == { e \in dict : hasEnd(h, e, vertex1) /\ hasEnd(h, e, vertex2) }
    IN  IF both = {} THEN None ELSE CHOOSE e \in both : \A o \in both : e <= o

RECURSIVE FaceEdges(_, _, _, _)

\* Polyhedron.__init__, lines 79-90: the edges around one face, from the i-th
\* vertex of around on.  acc holds the heap, the polyhedron's edge
\* dictionary, the face's edges so far and the previous vertex; curEdge is
\* the edge found in the dictionary or else made.
FaceEdges(acc, vertices, around, i) ==
    IF i > Len(around) \/ ~Ok(acc.h) THEN acc
    ELSE CHOOSE out \in {
            IF ~Ok(curEdge.h) THEN [acc EXCEPT !.h = curEdge.h]
            ELSE CHOOSE out \in {
                    FaceEdges(next, vertices, around, i + 1)
                    : next \in { [h |-> curEdge.h,
                                  dict |-> acc.dict \cup {curEdge.r},
                                  polygonEdges |-> Append(acc.polygonEdges, curEdge.r),
                                  prevVertex |-> vertices[around[i] + 1]] } } : TRUE
            : curEdge \in {
                CHOOSE out \in {
                    IF found # None THEN [h |-> acc.h, r |-> found]
                    ELSE Edge(acc.h, acc.prevVertex, vertices[around[i] + 1])
                    : found \in { DictFind2(acc.h, acc.dict, acc.prevVertex,
                                            vertices[around[i] + 1]) } } : TRUE } } : TRUE

RECURSIVE InitFaces(_, _, _, _, _)

\* Polyhedron.__init__, lines 74-93: the faces from the i-th face on.  acc
\* holds the heap, the edge dictionary and the faces made so far.
InitFaces(acc, vertices, faceLists, color, i) ==
    IF i > Len(faceLists) \/ ~Ok(acc.h) THEN acc
    ELSE CHOOSE out \in {
            IF ~Ok(es.h) THEN [acc EXCEPT !.h = es.h]
            ELSE CHOOSE out \in {
                    IF ~Ok(faceShape.h) THEN [acc EXCEPT !.h = faceShape.h]
                    ELSE CHOOSE out \in {
                            InitFaces([h |-> newFace.h, dict |-> es.dict,
                                       faces |-> Append(acc.faces, newFace.r)],
                                      vertices, faceLists, color, i + 1)
                            : newFace \in { Face(faceShape.h, FALSE, 1, faceShape.r,
                                                 color) } } : TRUE
                    : faceShape \in { Polygon(es.h, es.polygonEdges) } } : TRUE
            : es \in { FaceEdges([h |-> acc.h, dict |-> acc.dict, polygonEdges |-> <<>>,
                                  prevVertex |-> vertices[faceLists[i][1] + 1]],
                                 vertices, Tail(faceLists[i]) \o <<faceLists[i][1]>>,
                                 1) } } : TRUE

\* Polyhedron.__init__: vertices are Vertex objects, faceLists their indices
\* (from 0) around each face.
Polyhedron(h, vertices, faceLists, color) ==
    CHOOSE out \in {
        IF ~Ok(made.h) THEN [h |-> made.h, r |-> None]
        ELSE NewPolyhedron(made.h, made.faces, color)
        : made \in { InitFaces([h |-> h, dict |-> {}, faces |-> <<>>],
                               vertices, faceLists, color, 1) } } : TRUE

RECURSIVE contains(_, _, _)

\* Polyhedron.contains, for the point with coordinates point.  (The Vertex
\* the method makes for the point is used for this test only.)
contains(h, p, point) ==
    LET P == h.polyhedra[p]
    IN  IF P.back # None /\ P.front # None
        THEN contains(h, P.back, point) \/ contains(h, P.front, point)
        ELSE \A i \in 1..Len(P.faces) : ~(whichSideC(FacePlane(h, P.faces[i]), point) > 0)

\* Polyhedron.isEmpty
isEmpty(h, p) == Len(h.polyhedra[p].faces) < 4

\* Polyhedron.makeEmpty
makeEmpty(h, p) == [h EXCEPT !.polyhedra[p].faces = <<>>]

\* Polyhedron.setTo
setTo(h, p, other) == [h EXCEPT !.polyhedra[p] = h.polyhedra[other]]

RECURSIVE simplify(_, _)

\* simplify looking at the polyhedron's own two parts only.
simplifyShallow(h, p) ==
    LET P == h.polyhedra[p]
    IN  IF P.front # None /\ P.back # None
        THEN IF isEmpty(h, P.back) THEN setTo(h, p, P.front)
             ELSE IF isEmpty(h, P.front) THEN setTo(h, p, P.back)
             ELSE h
        ELSE h

\* Polyhedron.simplify: h1 and h2 are the heap after the front and after the
\* back part are simplified.
simplify(h, p) ==
    CHOOSE out \in {
        CHOOSE out \in {
            LET P == h2.polyhedra[p]
            IN  IF P.front # None /\ P.back # None
                THEN IF isEmpty(h2, P.back) THEN setTo(h2, p, P.front)
                     ELSE IF isEmpty(h2, P.front) THEN setTo(h2, p, P.back)
                     ELSE h2
                ELSE h2
            : h2 \in { IF h1.polyhedra[p].back # None
                       THEN simplify(h1, h1.polyhedra[p].back) ELSE h1 } } : TRUE
        : h1 \in { IF h.polyhedra[p].front # None
                   THEN simplify(h, h.polyhedra[p].front) ELSE h } } : TRUE

RECURSIVE SplitFaces(_, _, _, _)

\* SplitFaces keeping only the faces whose split names a splitter edge.
SplitFacesDroppingWhole(acc, fs, i, pl) ==
    IF i > Len(fs) \/ ~Ok(acc.h) THEN acc
    ELSE CHOOSE out \in {
            IF ~Ok(r.h) THEN [acc EXCEPT !.h = r.h]
            ELSE CHOOSE out \in {
                    SplitFaces(next, fs, i + 1, pl)
                    : next \in {
                        [h |-> r.h,
                         frontFaces |-> IF r.front # None /\ r.splitter # None THEN Append(acc.frontFaces, r.front)
                                        ELSE acc.frontFaces,
                         backFaces |-> IF r.back # None /\ r.splitter # None THEN Append(acc.backFaces, r.back)
                                       ELSE acc.backFaces,
                         splitterEdges |-> IF r.splitter # None
                                           THEN Append(acc.splitterEdges, r.splitter)
                                           ELSE acc.splitterEdges] } } : TRUE
            : r \in { FaceSplit(acc.h, fs[i], pl) } } : TRUE

\* Polyhedron.split, lines 245-256: the loop that splits every face, from
\* the i-th face on.  acc holds the heap, the two face lists and the
\* splitter edges in the order they were inserted in the dictionary; r is
\* what the face's split returns.
SplitFaces(acc, fs, i, pl) ==
    IF i > Len(fs) \/ ~Ok(acc.h) THEN acc
    ELSE CHOOSE out \in {
            IF ~Ok(r.h) THEN [acc EXCEPT !.h = r.h]
            ELSE CHOOSE out \in {
                    SplitFaces(next, fs, i + 1, pl)
                    : next \in {
                        [h |-> r.h,
                         frontFaces |-> IF r.front # None THEN Append(acc.frontFaces, r.front)
                                        ELSE acc.frontFaces,
                         backFaces |-> IF r.back # None THEN Append(acc.backFaces, r.back)
                                       ELSE acc.backFaces,
                         splitterEdges |-> IF r.splitter # None
                                           THEN Append(acc.splitterEdges, r.splitter)
                                           ELSE acc.splitterEdges] } } : TRUE
            : r \in { FaceSplit(acc.h, fs[i], pl) } } : TRUE

\* The element of a non-empty set of edges that an iteration over a Python
\* set meets first.  The order of a set of objects is not defined; the
\* caller's pick says whether it is the oldest or the youngest edge.
FirstOf(es, pick) ==
    IF pick THEN CHOOSE e \in es : \A o \in es : e <= o
    ELSE CHOOSE e \in es : \A o \in es : e >= o

\* EdgeDictionary.element: an edge from the set stored under the first key,
\* which is end1 of the first edge inserted; None for an empty dictionary.
element(h, splitterEdges, pick) ==
    IF Len(splitterEdges) = 0 THEN None
    ELSE FirstOf({ e \in SeqToSet(splitterEdges) :
                     hasEnd(h, e, h.edges[splitterEdges[1]].end1) }, pick)

\* EdgeDictionary.find1, as a set
find1(h, splitterEdges, vertex) ==
    { e \in SeqToSet(splitterEdges) : hasEnd(h, e, vertex) }

RECURSIVE StitchSplitters(_, _, _, _, _, _, _, _)

\* Polyhedron.split, lines 300-316: the walk along the splitter edges.  The
\* walk ends when it is back at the first edge; a walk that takes more steps
\* than there are directed splitter edges never ends.
StitchSplitters(h, splitterEdges, pick, polygonEdges, currentEdge, currentVertex, firstEdge, steps) ==
    LET nextVertex == oppositeFrom(h, currentEdge, currentVertex)
        newFirst == IF firstEdge = None THEN currentEdge ELSE firstEdge
    IN  IF currentEdge = firstEdge THEN [h |-> h, r |-> polygonEdges]
        ELSE IF steps > 2 * Len(splitterEdges)
        THEN [h |-> Raise(h, "Polyhedron.split is in an infinite loop"), r |-> polygonEdges]
        ELSE CHOOSE out \in {
                IF ~Ok(hoisted.h) THEN hoisted
                ELSE CHOOSE out \in {
                        IF others = {}
                        THEN StitchSplitters(hoisted.h, splitterEdges, pick, hoisted.r,
                                             currentEdge, currentVertex, newFirst, steps + 1)
                        ELSE StitchSplitters(hoisted.h, splitterEdges, pick, hoisted.r,
                                             FirstOf(others, pick), nextVertex, newFirst,
                                             steps + 1)
                        : others \in { find1(hoisted.h, splitterEdges, nextVertex)
                                          \ {currentEdge} } } : TRUE
                : hoisted \in { hoistInto(h, currentEdge, polygonEdges) } } : TRUE

\* The three lists Polyhedron.split returns, with the heap it leaves.
PolyhedronSplitResult(h, fronts, backs, splitters) ==
    [h |-> h, fronts |-> fronts, backs |-> backs, splitters |-> splitters]

\* The two parts of the polyhedron with the front part's separator face
\* oriented like the back part's.
MakeChildrenSameOrientation(h, p, pl, frontFaces, backFaces, splitterPolygon) ==
    LET color == h.polyhedra[p].color
        backOrientation == getOrientation(h, splitterPolygon, normal(pl))
    IN  CHOOSE out \in {
        CHOOSE out \in {
            CHOOSE out \in {
                CHOOSE out \in {
                    PolyhedronSplitResult(
                        [back.h EXCEPT !.polyhedra[p].front = front.r,
                                       !.polyhedra[p].back = back.r],
                        <<front.r>>, <<back.r>>, <<splitterPolygon>>)
                    : back \in { NewPolyhedron(front.h, Append(backFaces, backSeparator.r),
                                               color) } } : TRUE
                : front \in { NewPolyhedron(backSeparator.h,
                                            Append(frontFaces, frontSeparator.r),
                                            color) } } : TRUE
            : backSeparator \in { Face(frontSeparator.h, TRUE, backOrientation,
                                       splitterPolygon, color) } } : TRUE
        : frontSeparator \in { Face(h, TRUE, backOrientation, splitterPolygon,
                                    color) } } : TRUE

\* MakeChildren emptying the faces list of the polyhedron it splits.
MakeChildrenClearingFaces(h, p, pl, frontFaces, backFaces, splitterPolygon) ==
    LET color == h.polyhedra[p].color
        backOrientation == getOrientation(h, splitterPolygon, normal(pl))
    IN  CHOOSE out \in {
        CHOOSE out \in {
            CHOOSE out \in {
                CHOOSE out \in {
                    PolyhedronSplitResult(
                        [back.h EXCEPT !.polyhedra[p].front = front.r,
                                       !.polyhedra[p].back = back.r,
                                       !.polyhedra[p].faces = <<>>],
                        <<front.r>>, <<back.r>>, <<splitterPolygon>>)
                    : back \in { NewPolyhedron(front.h, Append(backFaces, backSeparator.r),
                                               color) } } : TRUE
                : front \in { NewPolyhedron(backSeparator.h,
                                            Append(frontFaces, frontSeparator.r),
                                            color) } } : TRUE
            : backSeparator \in { Face(frontSeparator.h, TRUE, backOrientation,
                                       splitterPolygon, color) } } : TRUE
        : frontSeparator \in { Face(h, TRUE, -backOrientation, splitterPolygon,
                                    color) } } : TRUE

\* Polyhedron.split, lines 331-349: the separator faces around
\* splitterPolygon and the two parts of the polyhedron.
MakeChildren(h, p, pl, frontFaces, backFaces, splitterPolygon) ==
    LET color == h.polyhedra[p].color
        backOrientation == getOrientation(h, splitterPolygon, normal(pl))
    IN  CHOOSE out \in {
        CHOOSE out \in {
            CHOOSE out \in {
                CHOOSE out \in {
                    PolyhedronSplitResult(
                        [back.h EXCEPT !.polyhedra[p].front = front.r,
                                       !.polyhedra[p].back = back.r],
                        <<front.r>>, <<back.r>>, <<splitterPolygon>>)
                    : back \in { NewPolyhedron(front.h, Append(backFaces, backSeparator.r),
                                               color) } } : TRUE
                : front \in { NewPolyhedron(backSeparator.h,
                                            Append(frontFaces, frontSeparator.r),
                                            color) } } : TRUE
            : backSeparator \in { Face(frontSeparator.h, TRUE, backOrientation,
                                       splitterPolygon, color) } } : TRUE
        : frontSeparator \in { Face(h, TRUE, -backOrientation, splitterPolygon,
                                    color) } } : TRUE

\* Polyhedron.split, lines 293-349: the non-trivial split of a leaf.
SplitLeafInTwo(h, p, pl, frontFaces, backFaces, splitterEdges, pick) ==
    LET currentEdge == element(h, splitterEdges, pick)
        Failed(hh) == PolyhedronSplitResult(hh, <<>>, <<>>, <<>>)
    IN  IF currentEdge = None
        THEN Failed(Raise(h, "AttributeError: 'NoneType' object has no attribute 'end1'"))
        ELSE CHOOSE out \in {
            IF ~Ok(stitched.h) THEN Failed(stitched.h)
            ELSE CHOOSE out \in {
                IF ~Ok(checked.h) THEN Failed(checked.h)
                ELSE CHOOSE out \in {
                    IF ~Ok(splitterPolygon.h) THEN Failed(splitterPolygon.h)
                    ELSE MakeChildren(splitterPolygon.h, p, pl, frontFaces, backFaces,
                                      splitterPolygon.r)
                    : splitterPolygon \in { Polygon(checked.h, checked.r) } } : TRUE
                : checked \in { checkEndParents(stitched.h, stitched.r) } } : TRUE
            : stitched \in { StitchSplitters(h, splitterEdges, pick, <<>>, currentEdge,
                                             h.edges[currentEdge].end1, None, 1) } } : TRUE

\* SplitLeaf reporting a polyhedron behind the plane as in front of it.
SplitLeafBackAsFront(h, p, pl, pick) ==
    CHOOSE out \in {
        IF ~Ok(done.h) THEN PolyhedronSplitResult(done.h, <<>>, <<>>, <<>>)
        ELSE IF Len(done.frontFaces) > 0 /\ Len(done.backFaces) <= 1
        THEN PolyhedronSplitResult(done.h, <<p>>, <<>>, <<>>)
        ELSE IF Len(done.frontFaces) <= 1 /\ Len(done.backFaces) > 0
        THEN PolyhedronSplitResult(done.h, <<p>>, <<>>, <<>>)
        ELSE SplitLeafInTwo(done.h, p, pl, done.frontFaces, done.backFaces,
                            done.splitterEdges, pick)
        : done \in { SplitFaces([h |-> h, frontFaces |-> <<>>, backFaces |-> <<>>,
                                 splitterEdges |-> <<>>],
                                h.polyhedra[p].faces, 1, pl) } } : TRUE

\* Polyhedron.split, lines 239-349: the split of an unsplit polyhedron.
SplitLeaf(h, p, pl, pick) ==
    CHOOSE out \in {
        IF ~Ok(done.h) THEN PolyhedronSplitResult(done.h, <<>>, <<>>, <<>>)
        ELSE IF Len(done.frontFaces) > 0 /\ Len(done.backFaces) <= 1
        THEN PolyhedronSplitResult(done.h, <<p>>, <<>>, <<>>)
        ELSE IF Len(done.frontFaces) <= 1 /\ Len(done.backFaces) > 0
        THEN PolyhedronSplitResult(done.h, <<>>, <<p>>, <<>>)
        ELSE SplitLeafInTwo(done.h, p, pl, done.frontFaces, done.backFaces,
                            done.splitterEdges, pick)
        : done \in { SplitFaces([h |-> h, frontFaces |-> <<>>, backFaces |-> <<>>,
                                 splitterEdges |-> <<>>],
                                h.polyhedra[p].faces, 1, pl) } } : TRUE

RECURSIVE PolyhedronSplit(_, _, _, _)

\* Polyhedron.split, lines 352-374: the split of a split polyhedron; fs and
\* bs are what the splits of the front and of the back part return.
SplitNode(h, p, pl, pick) ==
    CHOOSE out \in {
        IF ~Ok(fs.h) THEN PolyhedronSplitResult(fs.h, <<>>, <<>>, <<>>)
        ELSE CHOOSE out \in {
                IF ~Ok(bs.h) THEN PolyhedronSplitResult(bs.h, <<>>, <<>>, <<>>)
                ELSE PolyhedronSplitResult(bs.h, fs.fronts \o bs.fronts,
                                           fs.backs \o bs.backs,
                                           fs.splitters \o bs.splitters)
                : bs \in { IF fs.h.polyhedra[p].back # None
                           THEN PolyhedronSplit(fs.h, fs.h.polyhedra[p].back, pl, pick)
                           ELSE PolyhedronSplitResult(fs.h, <<>>, <<>>, <<>>) } } : TRUE
        : fs \in { IF h.polyhedra[p].front # None
                   THEN PolyhedronSplit(h, h.polyhedra[p].front, pl, pick)
                   ELSE PolyhedronSplitResult(h, <<>>, <<>>, <<>>) } } : TRUE

\* Polyhedron.split
PolyhedronSplit(h, p, pl, pick) ==
    IF h.polyhedra[p].front = None /\ h.polyhedra[p].back = None
    THEN SplitLeaf(h, p, pl, pick)
    ELSE SplitNode(h, p, pl, pick)

RECURSIVE SplitAll(_, _, _, _, _)

\* SplitAll carrying forward what lies in front of the plane as well.
SplitAllKeepingFronts(acc, toSplit, i, pl, pick) ==
    IF i > Len(toSplit) \/ ~Ok(acc.h) THEN acc
    ELSE CHOOSE out \in {
            CHOOSE out \in {
                SplitAll(next, toSplit, i + 1, pl, pick)
                : next \in { [h |-> r.h, r |-> acc.r \o r.backs \o r.fronts] } } : TRUE
            : r \in { PolyhedronSplit(acc.h, toSplit[i], pl, pick) } } : TRUE

\* Polyhedron.clipToPlanes, lines 197-199: every polyhedron still to split
\* is split by the current plane, from the i-th on; acc holds the heap and
\* nextToSplit.
SplitAll(acc, toSplit, i, pl, pick) ==
    IF i > Len(toSplit) \/ ~Ok(acc.h) THEN acc
    ELSE CHOOSE out \in {
            CHOOSE out \in {
                SplitAll(next, toSplit, i + 1, pl, pick)
                : next \in { [h |-> r.h, r |-> acc.r \o r.backs] } } : TRUE
            : r \in { PolyhedronSplit(acc.h, toSplit[i], pl, pick) } } : TRUE

RECURSIVE ClipLoop(_, _, _, _)

\* Polyhedron.clipToPlanes, lines 190-201: planes are taken from the end of
\* the caller's list until the list or toSplit is empty.
ClipLoop(h, planes, toSplit, pick) ==
    IF ~(Len(planes) > 0 /\ Len(toSplit) > 0) \/ ~Ok(h)
    THEN [h |-> h, planes |-> planes, toSplit |-> toSplit]
    ELSE CHOOSE out \in {
            ClipLoop(split.h, SubSeq(planes, 1, Len(planes) - 1), split.r, pick)
            : split \in { SplitAll([h |-> h, r |-> <<>>], toSplit, 1,
                                   planes[Len(planes)], pick) } } : TRUE

\* The polyhedra left to split stay as they are.
MakeNoneEmpty(h, toSplit, i) == h

RECURSIVE MakeAllEmpty(_, _, _)

\* Polyhedron.clipToPlanes, lines 207-208
MakeAllEmpty(h, toSplit, i) ==
    IF i > Len(toSplit) THEN h
    ELSE CHOOSE out \in {
            MakeAllEmpty(emptied, toSplit, i + 1)
            : emptied \in { makeEmpty(h, toSplit[i]) } } : TRUE

\* Polyhedron.clipToPlanes: the heap and the caller's list of planes as the
\* call leaves them.
clipToPlanes(h, p, planes, pick) ==
    CHOOSE out \in {
        IF ~Ok(looped.h) THEN [h |-> looped.h, planes |-> looped.planes]
        ELSE CHOOSE out \in {
                [h |-> simplify(emptied, p), planes |-> looped.planes]
                : emptied \in { MakeAllEmpty(looped.h, looped.toSplit, 1) } } : TRUE
        : looped \in { ClipLoop(h, planes, <<p>>, pick) } } : TRUE

\* "[ f.plane() for f in other.faces ]"
FacePlanes(h, p) ==
    [ i \in 1..Len(h.polyhedra[p].faces) |-> FacePlane(h, h.polyhedra[p].faces[i]) ]

RECURSIVE clipTo(_, _, _, _)

\* Polyhedron.clipTo: h1 and h2 are the heap after the clip to other's front
\* part and after the clip to its back part.
clipTo(h, p, other, pick) ==
    CHOOSE out \in {
        CHOOSE out \in {
            IF ~Ok(h2) THEN h2
            ELSE IF h2.polyhedra[other].front = None /\ h2.polyhedra[other].back = None
            THEN CHOOSE out \in {
                    clipToPlanes(h2, p, planes, pick).h
                    : planes \in { FacePlanes(h2, other) } } : TRUE
            ELSE h2
            : h2 \in { IF Ok(h1) /\ h1.polyhedra[other].back # None
                       THEN clipTo(h1, p, h1.polyhedra[other].back, pick) ELSE h1 } } : TRUE
        : h1 \in { IF h.polyhedra[other].front # None
                   THEN clipTo(h, p, h.polyhedra[other].front, pick) ELSE h } } : TRUE

(***************************************************************************)
(* The edge scenario: one edge along the x axis, split again and again     *)
(* (the edge itself or any edge made so far) by planes normal to the axis. *)
(***************************************************************************)
\* Most calls made in one behaviour.
MaxCalls == 3

\* Lengths of the first edge; its ends are at x = 0 and x = length.
EdgeLengths == {6, 1000, 40000}

\* Where the planes cross the x axis.
EdgePlaneXs == {-3, 1, 2, 3, 4, 6, 500, 998}

\* Plane.__init__ for the plane x = d, facing the way s (+1 or -1) says.
PlaneX(s, d) == [A |-> s, B |-> 0, C |-> 0, D |-> s * d]

EdgePlanes == { PlaneX(s, d) : s \in {1, -1}, d \in EdgePlaneXs }

NoCall == [op |-> "none", err |-> ""]

\* The heap held by the variables.
TheHeap == Heap(verts, edges, polys, faces, polyhedra)

\* The variables take the heap h.
HeapBecomes(h) ==
    /\ verts' = h.verts
    /\ edges' = h.edges
    /\ polys' = h.polys
    /\ faces' = h.faces
    /\ polyhedra' = h.polyhedra

\* The test driver of the edge scenario: two vertices and the edge between.
FirstEdge(len) ==
    CHOOSE out \in {
        CHOOSE out \in {
            Edge(v2.h, v1.r, v2.r).h
            : v2 \in { Vertex(v1.h, <<len, 0, 0>>) } } : TRUE
        : v1 \in { Vertex(EmptyHeap, <<0, 0, 0>>) } } : TRUE

InitEdge ==
    /\ \E len \in EdgeLengths :
          \E h \in { FirstEdge(len) } :
              /\ verts = h.verts
              /\ edges = h.edges
              /\ polys = h.polys
              /\ faces = h.faces
              /\ polyhedra = h.polyhedra
    /\ roots = <<>>
    /\ last = NoCall
    /\ nCalls = 0

\* One call e.split( plane ) on an edge that exists.
CallEdgeSplit ==
    /\ nCalls < MaxCalls
    /\ last.err = ""
    /\ \E e \in 1..Len(edges), pl \in EdgePlanes :
          \E r \in { EdgeSplit(TheHeap, e, pl) } :
              /\ HeapBecomes(r.h)
              /\ last' = [op |-> "Edge.split", self |-> e, plane |-> pl,
                          front |-> r.front, back |-> r.back, splitter |-> r.splitter,
                          err |-> r.h.err,
                          was |-> edges[e], edgesWas |-> edges,
                          nVerts |-> Len(verts), nEdges |-> Len(edges),
                          again |-> ( /\ last.op = "Edge.split" /\ last.err = ""
                                      /\ last.self = e /\ last.plane = pl ),
                          before |-> IF last.op = "Edge.split"
                                     THEN <<last.front, last.back, last.splitter>>
                                     ELSE <<>>]
    /\ nCalls' = nCalls + 1
    /\ UNCHANGED roots

NextEdge == CallEdgeSplit

SpecEdge == InitEdge /\ [][NextEdge]_vars

(***************************************************************************)
(* The corner scenario: a driver builds two edges that meet at a right     *)
(* angle, as two sides of a polygon do, and calls split and hoistInto      *)
(* (and through it commonParent, extendWith and makeSplitEdge) on the      *)
(* edges that exist.                                                       *)
(***************************************************************************)
\* The length of the two edges of the corner.
CornerLength == 1000

\* hoistInto is called with lists of at most this many edges.
MaxListLen == 2

\* Vertices (0,0,0), (len,0,0) and (len,len,0) and the two edges between.
CornerEdges(len) ==
    CHOOSE out \in {
        CHOOSE out \in {
            CHOOSE out \in {
                CHOOSE out \in {
                    Edge(e1.h, v2.r, v3.r).h
                    : e1 \in { Edge(v3.h, v1.r, v2.r) } } : TRUE
                : v3 \in { Vertex(v2.h, <<len, len, 0>>) } } : TRUE
            : v2 \in { Vertex(v1.h, <<len, 0, 0>>) } } : TRUE
        : v1 \in { Vertex(EmptyHeap, <<0, 0, 0>>) } } : TRUE

InitCorner ==
    /\ \E h \in { CornerEdges(CornerLength) } :
          /\ verts = h.verts
          /\ edges = h.edges
          /\ polys = h.polys
          /\ faces = h.faces
          /\ polyhedra = h.polyhedra
    /\ roots = <<>>
    /\ last = NoCall
    /\ nCalls = 0

\* The lists of edges the driver passes: no edge twice in a row.
EdgeLists ==
    { L \in UNION { [1..n -> 1..Len(edges)] : n \in 0..MaxListLen } :
        \A i \in 1..(Len(L) - 1) : L[i] # L[i + 1] }

\* One call e.hoistInto( L ) on an edge and a list of edges that exist.
CallHoistInto ==
    /\ nCalls < MaxCalls
    /\ last.err = ""
    /\ \E e \in 1..Len(edges), L \in EdgeLists :
          /\ Len(L) > 0 => L[Len(L)] # e
          /\ \E r \in { hoistInto(TheHeap, e, L) } :
                 /\ HeapBecomes(r.h)
                 /\ last' = [op |-> "Edge.hoistInto", self |-> e, list |-> L,
                             result |-> r.r, err |-> r.h.err,
                             edgesWas |-> edges,
                             nVerts |-> Len(verts), nEdges |-> Len(edges)]
    /\ nCalls' = nCalls + 1
    /\ UNCHANGED roots

NextCorner == CallEdgeSplit \/ CallHoistInto

SpecCorner == InitCorner /\ [][NextCorner]_vars

(***************************************************************************)
(* The polyhedron scenario: a driver like OneLayer/Test.py builds boxes    *)
(* with Test.py's rectangleFaces and then calls split and clipTo on them.  *)
(* Box corners lie on a lattice of LatticeStep units, far coarser than the *)
(* tolerances, and containment is sampled at the centres of the lattice    *)
(* cells, which lie on no plane through lattice points.                    *)
(***************************************************************************)
MaxPolyhedra == 2

MaxOps == 2

\* The driver calls split itself only in its first MaxSplits calls.
MaxSplits == 1

LatticeStep == 10

\* The lattice covers 0 .. LatticeCells * LatticeStep on each axis.
LatticeCells == 4

\* The sample points: the centres of the lattice cells.
Points ==
    LET centres == { LatticeStep * i - LatticeStep \div 2 : i \in 1..LatticeCells }
    IN  { <<x, y, z>> : x \in centres, y \in centres, z \in centres }

\* Test.py, lines 64-69
rectangleFaces ==
    << <<0, 2, 3, 1>>, <<1, 3, 7, 5>>, <<4, 5, 7, 6>>,
       <<0, 4, 6, 2>>, <<2, 6, 7, 3>>, <<0, 1, 5, 4>> >>

\* The boxes the driver may build: <<x0, x1, y0, y1, z0, z1>> in lattice steps.
Boxes ==
    { <<1, 3, 1, 3, 1, 3>>,      \* the cube in the middle
      <<0, 2, 0, 2, 0, 2>>,      \* a cube over one corner of it
      <<0, 4, 0, 4, 0, 4>>,      \* a cube around it
      <<1, 2, 1, 3, 1, 3>>,      \* half of it
      <<3, 4, 3, 4, 3, 4>> }     \* a cube that touches one corner of it

RECURSIVE MakeVertices(_, _, _)

\* "[ Vertex( x, y, z ), ... ]" for the coordinate triples cs, from the i-th on
MakeVertices(acc, cs, i) ==
    IF i > Len(cs) THEN acc
    ELSE CHOOSE out \in {
            MakeVertices([h |-> v.h, r |-> Append(acc.r, v.r)], cs, i + 1)
            : v \in { Vertex(acc.h, cs[i]) } } : TRUE

\* The vertices of a box in the order of Test.py's vertex lists (lines 42-49
\* and 53-60): x0 before x1, then y1 before y0, then z0 before z1.
BoxCorners(b) ==
    LET x0 == LatticeStep * b[1]
        x1 == LatticeStep * b[2]
        y0 == LatticeStep * b[3]
        y1 == LatticeStep * b[4]
        z0 == LatticeStep * b[5]
        z1 == LatticeStep * b[6]
    IN  << <<x0, y1, z0>>, <<x0, y1, z1>>, <<x0, y0, z0>>, <<x0, y0, z1>>,
           <<x1, y1, z0>>, <<x1, y1, z1>>, <<x1, y0, z0>>, <<x1, y0, z1>> >>

\* "Polyhedron( vertices, rectangleFaces, color )" for a box (Test.py, lines
\* 71 and 75); the color is the polyhedron's number.
BuildBox(h, b) ==
    CHOOSE out \in {
        Polyhedron(vs.h, vs.r, rectangleFaces, Len(h.polyhedra) + 1)
        : vs \in { MakeVertices([h |-> h, r |-> <<>>], BoxCorners(b), 1) } } : TRUE

\* The planes the driver splits with: x = d or y = d or z = d, facing either way.
AxisPlane(axis, s, d) ==
    Plane(IF axis = 1 THEN s ELSE 0, IF axis = 2 THEN s ELSE 0, IF axis = 3 THEN s ELSE 0,
          s * d * LatticeStep)

SplitPlanes ==
    { AxisPlane(1, 1, 2), AxisPlane(1, -1, 2), AxisPlane(2, 1, 1), AxisPlane(3, -1, 4) }

\* The sample points a polyhedron contains.
Inside(h, p) == { pt \in Points : contains(h, p, pt) }

Init ==
    /\ verts = <<>>
    /\ edges = <<>>
    /\ polys = <<>>
    /\ faces = <<>>
    /\ polyhedra = <<>>
    /\ roots = <<>>
    /\ last = NoCall
    /\ nCalls = 0

\* The driver builds a box.
CallPolyhedron ==
    /\ Len(roots) < MaxPolyhedra
    /\ nCalls = 0
    /\ last.err = ""
    /\ \E b \in Boxes :
          \E r \in { BuildBox(TheHeap, b) } :
              /\ HeapBecomes(r.h)
              /\ roots' = IF r.r # None THEN Append(roots, r.r) ELSE roots
              /\ last' = [op |-> "Polyhedron", self |-> r.r, err |-> r.h.err]
    /\ UNCHANGED nCalls

\* One call p.split( plane ) on a polyhedron the driver built.
CallSplit ==
    /\ nCalls < MaxOps
    /\ nCalls < MaxSplits
    /\ last.err = ""
    /\ \E p \in SeqToSet(roots), pl \in SplitPlanes, pick \in BOOLEAN :
          \E r \in { PolyhedronSplit(TheHeap, p, pl, pick) } :
              /\ HeapBecomes(r.h)
              /\ last' = [op |-> "Polyhedron.split", self |-> p, plane |-> pl,
                          fronts |-> r.fronts, backs |-> r.backs,
                          splitters |-> r.splitters, err |-> r.h.err,
                          was |-> polyhedra[p],
                          inside |-> Inside(TheHeap, p),
                          nEdges |-> Len(edges), nPolys |-> Len(polys)]
    /\ nCalls' = nCalls + 1
    /\ UNCHANGED roots

\* One call a.clipTo( b ) on two polyhedra the driver built.
CallClipTo ==
    /\ nCalls < MaxOps
    /\ last.err = ""
    /\ \E i, j \in 1..Len(roots), pick \in BOOLEAN :
          /\ i # j
          /\ \E h \in { clipTo(TheHeap, roots[i], roots[j], pick) } :
                 /\ HeapBecomes(h)
                 /\ last' = [op |-> "Polyhedron.clipTo", self |-> roots[i],
                             other |-> roots[j], err |-> h.err,
                             was |-> polyhedra[roots[i]],
                             otherWas |-> polyhedra[roots[j]],
                             inside |-> Inside(TheHeap, roots[i]),
                             otherInside |-> Inside(TheHeap, roots[j])]
    /\ nCalls' = nCalls + 1
    /\ UNCHANGED roots

Next == CallPolyhedron \/ CallSplit \/ CallClipTo

Spec == Init /\ [][Next]_vars

(***************************************************************************)
(* The polygon scenario: a driver makes the vertices of a flat shape and   *)
(* the edges between neighbouring vertices (as Polyhedron.__init__ does    *)
(* for a face), builds a Polygon from the loop of edges, started at any    *)
(* edge and walked either way, and calls split on the polygons that exist. *)
(* "roots" holds the loop of edges.                                        *)
(***************************************************************************)
\* The driver builds at most this many polygons from the loop.
MaxPolygons == 1

\* The driver calls Polygon.split at most this many times.
MaxPolygonOps == 2

\* The shapes, in the plane z = 0: a triangle, a square, a pentagon, and a
\* square with a fifth vertex in the middle of one side.
PolygonShapes ==
    { << <<0, 0, 0>>, <<100, 0, 0>>, <<0, 100, 0>> >>,
      << <<0, 0, 0>>, <<100, 0, 0>>, <<100, 100, 0>>, <<0, 100, 0>> >>,
      << <<0, 0, 0>>, <<100, 0, 0>>, <<150, 50, 0>>, <<100, 100, 0>>, <<0, 100, 0>> >>,
      << <<0, 0, 0>>, <<50, 0, 0>>, <<100, 0, 0>>, <<100, 100, 0>>, <<0, 100, 0>> >> }

RECURSIVE MakeLoopEdges(_, _, _)

\* The edges between each vertex of vs and the next, from the i-th on, the
\* last one back to the first vertex.
MakeLoopEdges(acc, vs, i) ==
    IF i > Len(vs) \/ ~Ok(acc.h) THEN acc
    ELSE CHOOSE out \in {
            MakeLoopEdges([h |-> e.h, r |-> Append(acc.r, e.r)], vs, i + 1)
            : e \in { Edge(acc.h, vs[i], vs[(i % Len(vs)) + 1]) } } : TRUE

\* The vertices and the loop of edges of a shape.
ShapeEdges(shape) ==
    CHOOSE out \in {
        MakeLoopEdges([h |-> vs.h, r |-> <<>>], vs.r, 1)
        : vs \in { MakeVertices([h |-> EmptyHeap, r |-> <<>>], shape, 1) } } : TRUE

InitPolygon ==
    /\ \E shape \in PolygonShapes :
          \E made \in { ShapeEdges(shape) } :
              /\ verts = made.h.verts
              /\ edges = made.h.edges
              /\ polys = made.h.polys
              /\ faces = made.h.faces
              /\ polyhedra = made.h.polyhedra
              /\ roots = made.r
    /\ last = NoCall
    /\ nCalls = 0

\* The loop L started at its k-th edge, walked backwards if reversed.
LoopFrom(L, k, reversed) ==
    LET turned == SubSeq(L, k, Len(L)) \o SubSeq(L, 1, k - 1)
    IN  IF reversed THEN Reverse(turned) ELSE turned

\* The planes the driver splits with: x = d or y = d (d in lattice steps),
\* facing either way.
PolygonPlanes ==
    { AxisPlane(axis, s, d) : axis \in {1, 2}, s \in {1, -1}, d \in {0, 2, 5} }
        \cup { AxisPlane(1, s, d) : s \in {1, -1}, d \in {10, 15, 20} }

\* The driver builds a polygon from the loop.
CallPolygon ==
    /\ Len(polys) < MaxPolygons
    /\ nCalls = 0
    /\ last.err = ""
    /\ \E k \in 1..Len(roots), reversed \in BOOLEAN :
          \E r \in { Polygon(TheHeap, LoopFrom(roots, k, reversed)) } :
              /\ HeapBecomes(r.h)
              /\ last' = [op |-> "Polygon", list |-> LoopFrom(roots, k, reversed),
                          self |-> r.r, err |-> r.h.err, nPolys |-> Len(polys)]
    /\ UNCHANGED <<roots, nCalls>>

\* One call p.split( plane ) on a polygon that exists.
CallPolygonSplit ==
    /\ nCalls < MaxPolygonOps
    /\ last.err = ""
    /\ \E p \in 1..Len(polys), pl \in PolygonPlanes :
          \E r \in { PolygonSplit(TheHeap, p, pl) } :
              /\ HeapBecomes(r.h)
              /\ last' = [op |-> "Polygon.split", self |-> p, plane |-> pl,
                          front |-> r.front, back |-> r.back, splitter |-> r.splitter,
                          err |-> r.h.err,
                          was |-> polys[p], polysWas |-> polys, edgesWas |-> edges,
                          nVerts |-> Len(verts), nEdges |-> Len(edges),
                          nPolys |-> Len(polys)]
    /\ nCalls' = nCalls + 1
    /\ UNCHANGED roots

NextPolygon == CallPolygon \/ CallPolygonSplit

SpecPolygon == InitPolygon /\ [][NextPolygon]_vars

(***************************************************************************)
(* The tetrahedron scenario: a driver builds one tetrahedron the way       *)
(* OneLayer/Test.py builds its boxes, from a vertex list and face lists,   *)
(* and splits it once with a plane normal to an axis.  The corners lie on  *)
(* a lattice of 2 * LatticeStep units and the planes on one of LatticeStep *)
(* units, so every cut of an edge is at a quarter, a half or three         *)
(* quarters of it and has whole coordinates.                               *)
(***************************************************************************)
\* The faces of a tetrahedron with base 0, 1, 2 counterclockwise seen from the
\* apex 3, each face counterclockwise seen from outside.
tetrahedronFaces == << <<0, 2, 1>>, <<0, 1, 3>>, <<1, 2, 3>>, <<2, 0, 3>> >>

\* The tetrahedra the driver may build: base corners and apex, in lattice steps.
Tetrahedra ==
    { << <<0, 0, 0>>, <<4, 0, 0>>, <<4, 4, 0>>, <<2, 0, 4>> >>,
      << <<0, 0, 0>>, <<4, 0, 0>>, <<4, 4, 0>>, <<2, 4, 4>> >>,
      << <<0, 0, 0>>, <<4, 0, 0>>, <<4, 4, 0>>, <<2, 2, 4>> >>,
      << <<0, 0, 0>>, <<4, 0, 0>>, <<0, 4, 0>>, <<2, 2, 4>> >> }

TetrahedronCorners(t) ==
    [i \in 1..4 |-> <<LatticeStep * t[i][1], LatticeStep * t[i][2], LatticeStep * t[i][3]>>]

\* "Polyhedron( vertices, tetrahedronFaces, color )"
BuildTetrahedron(h, t) ==
    CHOOSE out \in {
        Polyhedron(vs.h, vs.r, tetrahedronFaces, Len(h.polyhedra) + 1)
        : vs \in { MakeVertices([h |-> h, r |-> <<>>], TetrahedronCorners(t), 1) } } : TRUE

\* The planes the driver splits a tetrahedron with.
TetrahedronPlanes ==
    { AxisPlane(axis, s, d) : axis \in {1, 2, 3}, s \in {1, -1}, d \in 0..LatticeCells }

\* Constructing the tetrahedron.
CallTetrahedron ==
    /\ Len(roots) = 0
    /\ nCalls = 0
    /\ last.err = ""
    /\ \E t \in Tetrahedra :
          \E r \in { BuildTetrahedron(TheHeap, t) } :
              /\ HeapBecomes(r.h)
              /\ roots' = IF r.r # None THEN Append(roots, r.r) ELSE roots
              /\ last' = [op |-> "Polyhedron", self |-> r.r, err |-> r.h.err]
    /\ UNCHANGED nCalls

\* One call p.split( plane ) on the tetrahedron.
CallTetrahedronSplit ==
    /\ nCalls < MaxSplits
    /\ last.err = ""
    /\ \E p \in SeqToSet(roots), pl \in TetrahedronPlanes, pick \in BOOLEAN :
          \E r \in { PolyhedronSplit(TheHeap, p, pl, pick) } :
              /\ HeapBecomes(r.h)
              /\ last' = [op |-> "Polyhedron.split", self |-> p, plane |-> pl,
                          fronts |-> r.fronts, backs |-> r.backs,
                          splitters |-> r.splitters, err |-> r.h.err,
                          was |-> polyhedra[p],
                          nEdges |-> Len(edges), nPolys |-> Len(polys),
                          nPolyhedra |-> Len(polyhedra)]
    /\ nCalls' = nCalls + 1
    /\ UNCHANGED roots

NextTetrahedron == CallTetrahedron \/ CallTetrahedronSplit

SpecTetrahedron == Init /\ [][NextTetrahedron]_vars

(***************************************************************************)
(* The prism scenario: a driver builds one convex solid with a face of     *)
(* four edges that is not normal to an axis, from a vertex list and face   *)
(* lists as OneLayer/Test.py builds its boxes, and splits it once with a   *)
(* plane normal to an axis.  Corners lie on a lattice of 2 * LatticeStep   *)
(* units and planes on one of LatticeStep units, so every cut has whole    *)
(* coordinates.                                                            *)
(***************************************************************************)
\* A prism over the triangle 0, 1, 2 with the triangle 3, 4, 5 opposite;
\* each face counterclockwise seen from outside.
prismFaces ==
    << <<0, 1, 2>>, <<3, 5, 4>>, <<0, 3, 4, 1>>, <<1, 4, 5, 2>>, <<0, 2, 5, 3>> >>

\* The prisms the driver may build: the corners in lattice steps.  The
\* first has its ridge over the middle of its base, the second over one side.
Prisms ==
    { << <<0, 0, 0>>, <<4, 0, 0>>, <<2, 0, 4>>, <<0, 4, 0>>, <<4, 4, 0>>, <<2, 4, 4>> >>,
      << <<0, 0, 0>>, <<4, 0, 0>>, <<4, 0, 4>>, <<0, 4, 0>>, <<4, 4, 0>>, <<4, 4, 4>> >>,
      << <<0, 0, 0>>, <<4, 0, 0>>, <<2, 0, 2>>, <<0, 2, 0>>, <<4, 2, 0>>, <<2, 2, 2>> >> }

PrismCorners(t) ==
    [i \in 1..6 |-> <<LatticeStep * t[i][1], LatticeStep * t[i][2], LatticeStep * t[i][3]>>]

\* "Polyhedron( vertices, prismFaces, color )"
BuildPrism(h, t) ==
    CHOOSE out \in {
        Polyhedron(vs.h, vs.r, prismFaces, Len(h.polyhedra) + 1)
        : vs \in { MakeVertices([h |-> h, r |-> <<>>], PrismCorners(t), 1) } } : TRUE

\* Constructing the prism.
CallPrism ==
    /\ Len(roots) = 0
    /\ nCalls = 0
    /\ last.err = ""
    /\ \E t \in Prisms :
          \E r \in { BuildPrism(TheHeap, t) } :
              /\ HeapBecomes(r.h)
              /\ roots' = IF r.r # None THEN Append(roots, r.r) ELSE roots
              /\ last' = [op |-> "Polyhedron", self |-> r.r, err |-> r.h.err]
    /\ UNCHANGED nCalls

NextPrism == CallPrism \/ CallTetrahedronSplit

SpecPrism == Init /\ [][NextPrism]_vars

(***************************************************************************)
(* The tree scenario: one box, split by the driver into a tree of parts,   *)
(* some of whose leaves the driver empties with makeEmpty before it calls  *)
(* simplify on the root.                                                   *)
(***************************************************************************)
\* Most calls on the tree in one behaviour.
MaxTreeOps == 5

\* Most polyhedra in the tree.
MaxTreeSize == 5

TreeBoxes == { <<1, 3, 1, 3, 1, 3>>, <<0, 4, 0, 4, 0, 4>> }

TreePlanes == { AxisPlane(1, 1, 2), AxisPlane(2, -1, 2), AxisPlane(1, 1, 1) }

InitTree ==
    /\ \E b \in TreeBoxes :
          \E r \in { BuildBox(EmptyHeap, b) } :
              /\ verts = r.h.verts
              /\ edges = r.h.edges
              /\ polys = r.h.polys
              /\ faces = r.h.faces
              /\ polyhedra = r.h.polyhedra
              /\ roots = <<r.r>>
    /\ last = NoCall
    /\ nCalls = 0

RECURSIVE TreeOf(_, _)

\* The polyhedra of the tree under p, p included, in the polyhedra ps.
TreeOf(ps, p) ==
    {p} \cup (IF ps[p].front # None THEN TreeOf(ps, ps[p].front) ELSE {})
        \cup (IF ps[p].back # None THEN TreeOf(ps, ps[p].back) ELSE {})

\* The leaves of the tree under p.
LeavesOf(ps, p) == { q \in TreeOf(ps, p) : ps[q].front = None /\ ps[q].back = None }

\* One call root.split( plane ).
CallTreeSplit ==
    /\ nCalls < MaxTreeOps
    /\ Len(polyhedra) < MaxTreeSize
    /\ last.err = ""
    /\ \E pl \in TreePlanes, pick \in BOOLEAN :
          \E r \in { PolyhedronSplit(TheHeap, roots[1], pl, pick) } :
              /\ HeapBecomes(r.h)
              /\ last' = [op |-> "Polyhedron.split", self |-> roots[1], plane |-> pl,
                          fronts |-> r.fronts, backs |-> r.backs,
                          splitters |-> r.splitters, err |-> r.h.err]
    /\ nCalls' = nCalls + 1
    /\ UNCHANGED roots

\* One call p.makeEmpty() on a leaf of the tree, as clipToPlanes makes it.
CallMakeEmpty ==
    /\ nCalls < MaxTreeOps
    /\ last.err = ""
    /\ \E p \in LeavesOf(polyhedra, roots[1]) :
          /\ HeapBecomes(makeEmpty(TheHeap, p))
          /\ last' = [op |-> "Polyhedron.makeEmpty", self |-> p, err |-> ""]
    /\ nCalls' = nCalls + 1
    /\ UNCHANGED roots

\* One call root.simplify().
CallSimplify ==
    /\ nCalls < MaxTreeOps
    /\ last.err = ""
    /\ HeapBecomes(simplify(TheHeap, roots[1]))
    /\ last' = [op |-> "Polyhedron.simplify", self |-> roots[1], err |-> "",
                polyhedraWas |-> polyhedra]
    /\ nCalls' = nCalls + 1
    /\ UNCHANGED roots

NextTree == CallTreeSplit \/ CallMakeEmpty \/ CallSimplify

SpecTree == InitTree /\ [][NextTree]_vars

(***************************************************************************)
(* The plane scenario: two vertices, and a driver that asks planes normal  *)
(* to the x axis where they meet the segment between the two.              *)
(***************************************************************************)
SegmentXs == {-100, -3, -2, 2, 3, 100, 40000}

SegmentYs == {0, 100}

SegmentPlaneXs == {0, 1}

SegmentPlanes == { PlaneX(s, d) : s \in {1, -1}, d \in SegmentPlaneXs }

\* "Vertex( x1, y1, 0 )" and "Vertex( x2, y2, 0 )"
TwoVertices(c1, c2) ==
    CHOOSE out \in {
        Vertex(v1.h, c2).h
        : v1 \in { Vertex(EmptyHeap, c1) } } : TRUE

InitPlane ==
    /\ \E x1, x2 \in SegmentXs, y1, y2 \in SegmentYs :
          /\ <<x1, y1>> # <<x2, y2>>
          /\ \E h \in { TwoVertices(<<x1, y1, 0>>, <<x2, y2, 0>>) } :
                /\ verts = h.verts
                /\ edges = h.edges
                /\ polys = h.polys
                /\ faces = h.faces
                /\ polyhedra = h.polyhedra
    /\ roots = <<>>
    /\ last = NoCall
    /\ nCalls = 0

\* One call plane.intersection( point1, point2 ) on the two vertices, in
\* either order.
CallIntersection ==
    /\ nCalls = 0
    /\ \E pl \in SegmentPlanes, point1 \in {1, 2} :
          \E r \in { intersection(TheHeap, pl, point1, 3 - point1) } :
              /\ HeapBecomes(r.h)
              /\ last' = [op |-> "Plane.intersection", plane |-> pl,
                          point1 |-> point1, point2 |-> 3 - point1,
                          result |-> r.r, err |-> r.h.err, nVerts |-> Len(verts)]
    /\ nCalls' = nCalls + 1
    /\ UNCHANGED roots

NextPlane == CallIntersection

SpecPlane == InitPlane /\ [][NextPlane]_vars

(***************************************************************************)
(* The clipping scenario: one box and a driver that calls clipToPlanes on  *)
(* it with lists of planes.  A call is followed through its loop: "last"   *)
(* holds the call in progress, with the caller's list as the call has left *)
(* it so far (planes), the list as it was given (given), the polyhedra     *)
(* still to split (toSplit), those just split (split), and all those that  *)
(* a split of this call has returned in front of its plane (fronts).       *)
(***************************************************************************)
\* Most calls of clipToPlanes in one behaviour.
MaxClips == 2

\* Most planes in the caller's list.
MaxPlanes == 2

ClipPlanes == { AxisPlane(1, 1, 2), AxisPlane(2, -1, 2), AxisPlane(1, -1, 1) }

PlaneLists == UNION { [1..n -> ClipPlanes] : n \in 0..MaxPlanes }

ClipInProgress == last.op = "Polyhedron.clipToPlanes" /\ last.pc = "loop"

\* clipToPlanes, line 190: the call begins.
ClipBegin ==
    /\ nCalls < MaxClips
    /\ ~ClipInProgress
    /\ last.err = ""
    /\ \E planes \in PlaneLists :
          last' = [op |-> "Polyhedron.clipToPlanes", pc |-> "loop", self |-> roots[1],
                   given |-> planes, planes |-> planes, toSplit |-> <<roots[1]>>,
                   split |-> <<>>, fronts |-> {}, emptied |-> <<>>, err |-> "",
                   polyhedraWas |-> polyhedra]
    /\ nCalls' = nCalls + 1
    /\ UNCHANGED <<verts, edges, polys, faces, polyhedra, roots>>

RECURSIVE FrontsOfAll(_, _, _, _, _)

\* The polyhedra that the splits of lines 197-199 return in front of the
\* plane, from the i-th polyhedron of toSplit on.
FrontsOfAll(h, toSplit, i, pl, pick) ==
    IF i > Len(toSplit) \/ ~Ok(h) THEN {}
    ELSE CHOOSE out \in {
            SeqToSet(r.fronts) \cup FrontsOfAll(r.h, toSplit, i + 1, pl, pick)
            : r \in { PolyhedronSplit(h, toSplit[i], pl, pick) } } : TRUE

\* clipToPlanes, lines 192-201: one turn of the loop.
ClipStep ==
    /\ ClipInProgress
    /\ Len(last.planes) > 0 /\ Len(last.toSplit) > 0
    /\ \E pick \in BOOLEAN :
          \E r \in { SplitAll([h |-> TheHeap, r |-> <<>>], last.toSplit, 1,
                              last.planes[Len(last.planes)], pick) } :
              /\ HeapBecomes(r.h)
              /\ last' = [last EXCEPT
                            !.pc = IF Ok(r.h) THEN "loop" ELSE "done",
                            !.planes = SubSeq(@, 1, Len(@) - 1),
                            !.toSplit = r.r,
                            !.split = last.toSplit,
                            !.fronts = @ \cup FrontsOfAll(TheHeap, last.toSplit, 1,
                                                          last.planes[Len(last.planes)],
                                                          pick),
                            !.err = r.h.err]
    /\ UNCHANGED <<roots, nCalls>>

\* clipToPlanes, lines 207-219: what is left to split is made empty and the
\* tree is simplified.
ClipEnd ==
    /\ ClipInProgress
    /\ ~(Len(last.planes) > 0 /\ Len(last.toSplit) > 0)
    /\ HeapBecomes(simplify(MakeAllEmpty(TheHeap, last.toSplit, 1), last.self))
    /\ last' = [last EXCEPT !.pc = "done", !.emptied = last.toSplit, !.split = <<>>]
    /\ UNCHANGED <<roots, nCalls>>

NextClip == ClipBegin \/ ClipStep \/ ClipEnd

SpecClip == InitTree /\ [][NextClip]_vars

(***************************************************************************)
(* The drawing scenario: the polygon scenario with a driver that also      *)
(* draws the polygons made so far to a renderer that records the calls of  *)
(* its triangle method.                                                    *)
(***************************************************************************)
MaxDrawOps == 3

\* One call p.draw( renderer, orientation, color ).
CallPolygonDraw ==
    /\ nCalls < MaxDrawOps
    /\ last.err = ""
    /\ \E p \in 1..Len(polys), orientation \in {1, -1} :
          last' = [op |-> "Polygon.draw", self |-> p, orientation |-> orientation,
                   triangles |-> PolygonDraw(TheHeap, p, orientation), err |-> ""]
    /\ nCalls' = nCalls + 1
    /\ UNCHANGED <<verts, edges, polys, faces, polyhedra, roots>>

NextDraw == CallPolygon \/ CallPolygonSplit \/ CallPolygonDraw

SpecDraw == InitPolygon /\ [][NextDraw]_vars

(***************************************************************************)
(* Properties of Edge.split (edge scenario).  "last" describes the latest  *)
(* call: the edge (self) and plane, what was returned (front, back,        *)
(* splitter), the exception raised if any (err), the edge's fields and the *)
(* numbers of Vertex and Edge objects before the call (was, nVerts,        *)
(* nEdges), whether the call before was the same call and returned (again) *)
(* and what that call returned (before).                                   *)
(***************************************************************************)
EdgeSplitCalled == last.op = "Edge.split"

\* The sides of the plane on which the ends of the split edge lie.
LastSide1 == whichSideC(last.plane, verts[edges[last.self].end1])

LastSide2 == whichSideC(last.plane, verts[edges[last.self].end2])

\* The split edge had children before the call.
LastWasSplit == last.was.front # None \/ last.was.back # None

\* What the call returned.
LastReturned == <<last.front, last.back, last.splitter>>

\* Distances of the split edge's ends from the plane.  The plane cuts the
\* segment at the fraction t = LastOff1 / (LastOff1 + LastOff2) from end1.
LastOff1 ==
    LET c == verts[edges[last.self].end1] IN Abs(planeZero(last.plane, c[1], c[2], c[3]))

LastOff2 ==
    LET c == verts[edges[last.self].end2] IN Abs(planeZero(last.plane, c[1], c[2], c[3]))

\* The plane cuts the split edge less than 0.5% of its length from an end.
LastCutNearEnd ==
    \/ 200 * LastOff1 < LastOff1 + LastOff2
    \/ 200 * LastOff2 < LastOff1 + LastOff2

\* No two edges join the same pair of vertices.
EdgesUnique ==
    \A e1, e2 \in 1..Len(edges) :
        ( /\ hasEnd(TheHeap, e1, edges[e2].end1)
          /\ hasEnd(TheHeap, e1, edges[e2].end2) ) => e1 = e2

\* The call made the children of an unsplit edge as Edge.split's lines
\* 178-193 do: a new vertex v in the plane, new edges (end1, v) and
\* (end2, v), stored as front and back by the side of end1, and returned.
LastMadeChildren ==
    LET self == last.self
        E == edges[self]
        v == last.splitter
        sub1 == last.nEdges + 1
        sub2 == last.nEdges + 2
    IN  /\ last.err = ""
        /\ v = last.nVerts + 1
        /\ Len(verts) = last.nVerts + 1
        /\ containsPoint(TheHeap, last.plane, v)
        /\ Len(edges) = last.nEdges + 2
        /\ <<edges[sub1].end1, edges[sub1].end2>> = <<E.end1, v>>
        /\ <<edges[sub2].end1, edges[sub2].end2>> = <<E.end2, v>>
        /\ E.front = (IF LastSide1 > 0 THEN sub1 ELSE sub2)
        /\ E.back = (IF LastSide1 > 0 THEN sub2 ELSE sub1)
        /\ E.splitterVertex = v
        /\ <<E.end1, E.end2>> = <<last.was.end1, last.was.end2>>
        /\ LastReturned = <<E.front, E.back, v>>

C8_OppositeSidesAlwaysSplit ==
    (EdgeSplitCalled /\ ~LastWasSplit /\ LastSide1 * LastSide2 < 0) => LastMadeChildren

\* C8 (amended): it does so when the plane cuts the edge at least 0.5% of the
\* edge's length away from both ends; nearer to an end, the edge is returned
\* whole on the side of its other end, with that end as the splitter vertex.
C8_OppositeSidesSplitUnlessNearEnd ==
    (EdgeSplitCalled /\ ~LastWasSplit /\ LastSide1 * LastSide2 < 0) =>
        IF LastCutNearEnd
        THEN LET self == last.self
                 near == IF 200 * LastOff2 < LastOff1 + LastOff2
                         THEN edges[self].end2 ELSE edges[self].end1
                 farSide == IF near = edges[self].end2 THEN LastSide1 ELSE LastSide2
             IN  /\ last.err = ""
                 /\ LastReturned = (IF farSide > 0 THEN <<self, None, near>>
                                                   ELSE <<None, self, near>>)
                 /\ edges = [e \in 1..last.nEdges |-> edges[e]]
                 /\ edges[self] = last.was
        ELSE LastMadeChildren

\* An unsplit edge was split in two, end1 behind the plane.
C8_Witness ==
    /\ EdgeSplitCalled
    /\ ~LastWasSplit
    /\ LastSide1 < 0 /\ LastSide2 > 0
    /\ ~LastCutNearEnd
    /\ LastMadeChildren
    /\ last.back = last.nEdges + 1

\* C9: when the ends of an edge are not strictly on opposite sides of the
\* plane, split returns (self, self, None) for an edge in the plane, the edge
\* on its side with the end that is in the plane for an edge touching the
\* plane, and the edge on its side with no splitter vertex otherwise, whether
\* or not the edge is already split.
C9_TrivialSplitResults ==
    (EdgeSplitCalled /\ LastSide1 * LastSide2 >= 0) =>
        LET self == last.self
            s1 == LastSide1
            s2 == LastSide2
            onPlaneEnd == IF s1 = 0 THEN edges[self].end1 ELSE edges[self].end2
        IN  /\ last.err = ""
            /\ (s1 = 0 /\ s2 = 0) => LastReturned = <<self, self, None>>
            /\ (s1 + s2 = 1) => LastReturned = <<self, None, onPlaneEnd>>
            /\ (s1 + s2 = -1) => LastReturned = <<None, self, onPlaneEnd>>
            /\ (s1 + s2 = 2) => LastReturned = <<self, None, None>>
            /\ (s1 + s2 = -2) => LastReturned = <<None, self, None>>

\* An already split edge was returned whole with the end it has in the plane.
C9_Witness ==
    /\ EdgeSplitCalled
    /\ LastWasSplit
    /\ LastSide1 + LastSide2 = -1
    /\ LastReturned = <<None, last.self, edges[last.self].end1>>
    /\ LastSide1 = 0

\* C10: when the plane passes through the splitter vertex of an already
\* split edge whose ends are strictly on opposite sides, split returns the
\* edge's own children and splitter vertex, the child in front of the plane
\* first (so swapped when the plane faces the other way), and no new Edge.
C10_RepeatedSplitReturnsChildren ==
    ( /\ EdgeSplitCalled
      /\ LastWasSplit
      /\ LastSide1 * LastSide2 < 0
      /\ whichSide(TheHeap, last.plane, last.was.splitterVertex) = 0 ) =>
        LET sv == last.was.splitterVertex
        IN  /\ last.err = ""
            /\ last.splitter = sv
            /\ \/ <<last.front, last.back>> = <<last.was.front, last.was.back>>
               \/ <<last.front, last.back>> = <<last.was.back, last.was.front>>
            /\ whichSide(TheHeap, last.plane, oppositeFrom(TheHeap, last.front, sv)) > 0
            /\ whichSide(TheHeap, last.plane, oppositeFrom(TheHeap, last.back, sv)) < 0
            /\ Len(edges) = last.nEdges
            /\ edges[last.self] = last.was

\* The existing split was repeated by a plane facing the other way.
C10_Witness ==
    /\ EdgeSplitCalled
    /\ LastWasSplit
    /\ LastSide1 * LastSide2 < 0
    /\ whichSide(TheHeap, last.plane, last.was.splitterVertex) = 0
    /\ last.err = ""
    /\ <<last.front, last.back>> = <<last.was.back, last.was.front>>
    /\ last.front # last.back


(***************************************************************************)
(* Properties of Polyhedron.split and Polyhedron.clipTo (polyhedron        *)
(* scenario).  "last" describes the latest call: the polyhedron (self),    *)
(* the plane or the other polyhedron, what was returned, the exception     *)
(* raised if any (err), the polyhedron's fields before the call (was,      *)
(* otherWas) and the sample points that self.contains and other.contains   *)
(* accepted before the call (inside, otherInside).                         *)
(***************************************************************************)
SplitReturned == last.op = "Polyhedron.split" /\ last.err = ""

ClipToCalled == last.op = "Polyhedron.clipTo"

ClipToReturned == ClipToCalled /\ last.err = ""

\* The sample points that self.contains accepts now.
InsideNow == Inside(TheHeap, last.self)

\* other was a non-empty leaf when clipTo was called.
OtherWasLeaf ==
    /\ last.otherWas.front = None /\ last.otherWas.back = None
    /\ Len(last.otherWas.faces) >= 4

\* other was a split node when clipTo was called.  (Both its halves are
\* non-empty: the driver's split is the only call that was made before.)
OtherWasSplit == last.otherWas.front # None /\ last.otherWas.back # None

\* self was not empty when clipTo was called, and all of it was inside other.
SelfWasInsideOther ==
    /\ Len(last.was.faces) >= 4
    /\ last.inside \subseteq last.otherInside

\* C1 as stated: after A.clipTo(B) with B a non-empty leaf, A.contains is
\* unchanged at every point strictly outside B.
C1_OutsidePointsUnchanged ==
    (ClipToReturned /\ OtherWasLeaf) =>
        InsideNow \ last.otherInside = last.inside \ last.otherInside

\* C2 as stated: after A.clipTo(B) with B a non-empty leaf, A.contains is
\* false at every point strictly inside B.
C2_NothingInsideOtherKept ==
    (ClipToReturned /\ OtherWasLeaf) => InsideNow \cap last.otherInside = {}

\* The parts (fronts and backs) that the latest split returned.
SplitParts == SeqToSet(last.fronts) \cup SeqToSet(last.backs)

\* C3: after P.split(plane) on a leaf P returns, a point is contained in P as
\* it was before the call iff it is contained in one of the fronts or backs.
C3_SplitKeepsPoints ==
    (SplitReturned /\ last.was.front = None /\ last.was.back = None) =>
        \A pt \in Points :
            (pt \in last.inside) <=> (\E q \in SplitParts : contains(TheHeap, q, pt))

\* A split of a leaf that made two parts.
C3_Witness ==
    /\ SplitReturned /\ last.was.front = None /\ last.was.back = None
    /\ Len(last.fronts) = 1 /\ Len(last.backs) = 1
    /\ last.fronts[1] # last.self /\ last.backs[1] # last.self
    /\ last.inside # {}

\* C4 as stated: after A.clipTo(other) with other a split node, A contains
\* exactly the points of the original A that are outside both halves.
C4_ClipToSplitNode ==
    (ClipToReturned /\ OtherWasSplit) => InsideNow = last.inside \ last.otherInside

\* C5: after A.clipTo(B) with B a non-empty leaf and a non-empty A that is
\* inside B, the call has returned, A.isEmpty() holds and A has no front or
\* back.
C5_ClippedAwayIsEmpty ==
    (ClipToCalled /\ OtherWasLeaf /\ SelfWasInsideOther) =>
        /\ last.err = ""
        /\ isEmpty(TheHeap, last.self)
        /\ polyhedra[last.self].front = None
        /\ polyhedra[last.self].back = None

\* A non-empty polyhedron was clipped to a leaf that it is inside of.
C5_Witness ==
    /\ ClipToReturned /\ OtherWasLeaf /\ SelfWasInsideOther
    /\ last.inside # {}
    /\ isEmpty(TheHeap, last.self)

\* C6 as stated: after A.clipTo(B) with A inside B, A.contains is false at
\* every point that was inside A before the call.
C6_ClippedAwayContainsNothing ==
    (ClipToReturned /\ OtherWasLeaf /\ SelfWasInsideOther) =>
        InsideNow \cap last.inside = {}

(***************************************************************************)
(* Properties of a split of an edge that already has children.             *)
(***************************************************************************)
\* The side of the latest call's plane on which a vertex lies.
LastSideOf(v) == whichSide(TheHeap, last.plane, v)

\* The end of a child of the split edge that is an end of the split edge.
LastFarEnd(child) == oppositeFrom(TheHeap, child, last.was.splitterVertex)

\* The plane has the ends of this child of the split edge strictly on
\* opposite sides.
LastCrosses(child) ==
    /\ child # None
    /\ LastSideOf(LastFarEnd(child)) * LastSideOf(last.was.splitterVertex) = -1

\* The child of the split edge that the plane crosses, and its sibling.
LastCrossedChild ==
    IF LastCrosses(last.was.front) THEN last.was.front ELSE last.was.back

LastSibling ==
    IF LastCrosses(last.was.front) THEN last.was.back ELSE last.was.front

\* The edge had both children and the plane crosses strictly inside one.
LastCrossedOneChild ==
    /\ EdgeSplitCalled
    /\ last.was.front # None /\ last.was.back # None
    /\ LastCrosses(last.was.front) \/ LastCrosses(last.was.back)

\* Of the two returned edges, the one that reaches over the old splitter
\* vertex to the sibling's end.
LastJoined ==
    IF oppositeFrom(TheHeap, last.front, last.splitter) = LastFarEnd(LastSibling)
    THEN last.front ELSE last.back

\* What C11 says the call returned and left alone.
LastJoinedSibling ==
    /\ last.err = ""
    /\ last.front # None /\ last.back # None /\ last.splitter # None
    /\ containsPoint(TheHeap, last.plane, last.splitter)
    /\ last.splitter \notin {last.was.end1, last.was.end2, last.was.splitterVertex}
    /\ hasEnd(TheHeap, last.front, last.splitter)
    /\ hasEnd(TheHeap, last.back, last.splitter)
    /\ { oppositeFrom(TheHeap, last.front, last.splitter),
         oppositeFrom(TheHeap, last.back, last.splitter) }
         = {last.was.end1, last.was.end2}
    /\ LastSideOf(oppositeFrom(TheHeap, last.front, last.splitter)) > 0
    /\ LastSideOf(oppositeFrom(TheHeap, last.back, last.splitter)) < 0
    /\ LastSibling \in {edges[LastJoined].front, edges[LastJoined].back}
    /\ edges[last.self] = last.was

RECURSIVE PieceCrossed(_)

\* The piece of edge e, unsplit before the latest call, whose ends the plane
\* has strictly on opposite sides (None if there is none: the plane misses
\* e or passes through a vertex between its pieces).
PieceCrossed(e) ==
    LET E == last.edgesWas[e]
    IN  IF e = None \/ LastSideOf(E.end1) * LastSideOf(E.end2) # -1 THEN None
        ELSE IF E.front = None /\ E.back = None THEN e
        ELSE CHOOSE out \in {
                IF inFront # None THEN inFront ELSE PieceCrossed(E.back)
                : inFront \in { PieceCrossed(E.front) } } : TRUE

\* The plane cuts that piece less than 0.5% of its length from an end.
LastCutsPieceNearEnd ==
    LET piece == PieceCrossed(last.self)
        c1 == verts[edges[piece].end1]
        c2 == verts[edges[piece].end2]
        off1 == Abs(planeZero(last.plane, c1[1], c1[2], c1[3]))
        off2 == Abs(planeZero(last.plane, c2[1], c2[2], c2[3]))
    IN  /\ piece # None
        /\ 200 * off1 < off1 + off2 \/ 200 * off2 < off1 + off2

EdgesWithChildren ==
    { e \in 1..Len(edges) : edges[e].front # None \/ edges[e].back # None }

\* The edge's children meet at its splitterVertex and end at its two ends.
ChildrenSpan(e) ==
    LET E == edges[e]
    IN  /\ E.front # None /\ E.back # None /\ E.splitterVertex # None
        /\ hasEnd(TheHeap, E.front, E.splitterVertex)
        /\ hasEnd(TheHeap, E.back, E.splitterVertex)
        /\ { oppositeFrom(TheHeap, E.front, E.splitterVertex),
             oppositeFrom(TheHeap, E.back, E.splitterVertex) } = {E.end1, E.end2}

\* C12: every edge that has children has both, both children have the
\* edge's splitterVertex as an end, and their other ends are the edge's end1
\* and end2, one each.
C12_ChildrenSpanEdge == \A e \in EdgesWithChildren : ChildrenSpan(e)

\* hoistInto has just made an edge from two older edges (by commonParent,
\* extendWith and makeSplitEdge), beside edges that split made.
C12_Witness ==
    /\ last.op = "Edge.hoistInto" /\ last.err = ""
    /\ Len(edges) = last.nEdges + 1
    /\ Len(edges) \in EdgesWithChildren
    /\ \E e \in EdgesWithChildren : edges[e].front > e /\ edges[e].back > e
    /\ C12_ChildrenSpanEdge

\* C13: no step removes an Edge or changes the end1 or end2 of one, and no
\* step changes or clears the front, back or splitterVertex of an Edge that
\* has them set.
C13_EdgesAppendOnly ==
    [][ /\ Len(edges') >= Len(edges)
        /\ \A e \in 1..Len(edges) :
              /\ edges'[e].end1 = edges[e].end1
              /\ edges'[e].end2 = edges[e].end2
              /\ (edges[e].front # None \/ edges[e].back # None
                      \/ edges[e].splitterVertex # None)
                    => edges'[e] = edges[e] ]_vars

\* A call has attached children to an edge that existed, beside an older
\* edge that already had children.
C13_Witness ==
    /\ last.err = ""
    /\ \E e \in EdgesWithChildren : edges[e].front > e /\ edges[e].front <= last.nEdges
    /\ \E e \in EdgesWithChildren : e <= last.nEdges /\ edges[e].front > last.nEdges

(***************************************************************************)
(* Properties of Edge.hoistInto (corner scenario).  "last" holds the edge  *)
(* (self), the list passed (list), the list returned (result) and the      *)
(* exception raised if any (err).                                          *)
(***************************************************************************)
HoistIntoReturned == last.op = "Edge.hoistInto" /\ last.err = ""

\* Two edges are parallel and share an end, so that commonParent finds or
\* makes a parent for them.
HaveCommonParent(a, b) ==
    /\ isParallelTo(TheHeap, a, b)
    /\ hasEnd(TheHeap, b, edges[a].end1) \/ hasEnd(TheHeap, b, edges[a].end2)

\* That parent: the edge between the ends the two edges do not share.
CommonParentOf(a, b) ==
    LET shared == IF hasEnd(TheHeap, b, edges[a].end1) THEN edges[a].end1
                  ELSE edges[a].end2
    IN  find2(TheHeap, oppositeFrom(TheHeap, a, shared), oppositeFrom(TheHeap, b, shared))

RECURSIVE HoistedInto(_, _)

\* The list C14 describes: L + [e], or the common parent of e and the last
\* of L hoisted into the rest of L.
HoistedInto(e, L) ==
    IF Len(L) = 0 \/ ~HaveCommonParent(e, L[Len(L)]) THEN Append(L, e)
    ELSE HoistedInto(CommonParentOf(e, L[Len(L)]), SubSeq(L, 1, Len(L) - 1))

\* No two neighbours in the list have a common parent.
NoNeighboursJoin(L) ==
    \A i \in 1..(Len(L) - 1) : ~HaveCommonParent(L[i], L[i + 1])

PolygonCalled == last.op = "Polygon"

\* The vector from one end of an edge to the other.
Direction(e) ==
    LET c1 == verts[edges[e].end1]
        c2 == verts[edges[e].end2]
    IN  <<c2[1] - c1[1], c2[2] - c1[2], c2[3] - c1[3]>>

\* Two vectors are multiples of one another.
Proportional(u, v) ==
    /\ u[1] * v[2] = u[2] * v[1]
    /\ u[1] * v[3] = u[3] * v[1]
    /\ u[2] * v[3] = u[3] * v[2]

\* Some edge of the list is parallel to the next one, the last to the first.
HasParallelNeighbours(L) ==
    \E i \in 1..Len(L) : Proportional(Direction(L[i]), Direction(L[(i % Len(L)) + 1]))

\* C15: Polygon( edges ) raises if and only if some edge of the list is
\* parallel to the edge after it (cyclically); otherwise it makes an unsplit
\* polygon with these edges and front = back = splitterEdge = None.
C15_PolygonRaisesIffParallel ==
    PolygonCalled =>
        /\ (last.err # "") <=> HasParallelNeighbours(last.list)
        /\ last.err # "" => Len(polys) = last.nPolys
        /\ last.err = "" =>
              /\ Len(polys) = last.nPolys + 1
              /\ last.self = Len(polys)
              /\ polys[last.self] = [edges |-> last.list, front |-> None,
                                     back |-> None, splitterEdge |-> None]

\* The constructor raised for a loop whose only parallel neighbours are its
\* last and its first edge.
C15_Witness ==
    /\ PolygonCalled
    /\ last.err # ""
    /\ Proportional(Direction(last.list[Len(last.list)]), Direction(last.list[1]))
    /\ \A i \in 1..(Len(last.list) - 1) :
          ~Proportional(Direction(last.list[i]), Direction(last.list[i + 1]))

PolygonSplitReturned == last.op = "Polygon.split" /\ last.err = ""

\* The split returned two different polygons and an edge between them.
LastSplitInTwo ==
    /\ PolygonSplitReturned
    /\ last.front # None /\ last.back # None /\ last.front # last.back
    /\ last.splitter # None

\* Two edges have an end in common.
ShareEnd(a, b) == {edges[a].end1, edges[a].end2} \cap {edges[b].end1, edges[b].end2} # {}

\* Every edge of the polygon has an end in common with the next one, the
\* last with the first.
ClosedLoop(p) ==
    LET es == polys[p].edges
    IN  \A i \in 1..Len(es) : ShareEnd(es[i], es[(i % Len(es)) + 1])

\* C16: after a non-trivial split of a polygon, first or repeated, the edges
\* of each of the two polygons returned form a closed loop, and the splitter
\* edge returned is an edge of both.
C16_SplitPartsAreLoops ==
    LastSplitInTwo =>
        /\ ClosedLoop(last.front)
        /\ ClosedLoop(last.back)
        /\ last.splitter \in SeqToSet(polys[last.front].edges)
        /\ last.splitter \in SeqToSet(polys[last.back].edges)

\* A repeated split that put a polygon together with makeSplitPolygon.
C16_Witness ==
    /\ LastSplitInTwo
    /\ last.was.front # None
    /\ Len(polys) > last.nPolys
    /\ \E p \in {last.front, last.back} : p > last.nPolys /\ polys[p].front # None


(***************************************************************************)
(* A polygon that touches the plane with one edge (polygon scenario).      *)
(***************************************************************************)

\* The edges of the polygon just split that lie in the plane, and its
\* vertices that lie off the plane.
LastInPlaneEdges ==
    { e \in SeqToSet(last.was.edges) :
        LastSideOf(edges[e].end1) = 0 /\ LastSideOf(edges[e].end2) = 0 }

LastOffPlaneSides ==
    { LastSideOf(v) : v \in UNION { {edges[e].end1, edges[e].end2} :
                                      e \in SeqToSet(last.was.edges) } } \ {0}

\* An unsplit polygon was split by a plane that holds exactly one of its
\* edges and has every other vertex on the side named.
LastTouchesWithOneEdge(side) ==
    /\ last.op = "Polygon.split"
    /\ last.was.front = None /\ last.was.back = None
    /\ Cardinality(LastInPlaneEdges) = 1
    /\ LastOffPlaneSides = {side}

\* C17: when an unsplit polygon lies on one side of the plane except for
\* exactly one edge in the plane, Polygon.split returns the polygon whole on
\* that side with that edge as the splitter edge.
C17_TouchingPolygonReportsEdge ==
    \A side \in {1, -1} :
        LastTouchesWithOneEdge(side) =>
            /\ last.err = ""
            /\ last.front = (IF side = 1 THEN last.self ELSE None)
            /\ last.back = (IF side = 1 THEN None ELSE last.self)
            /\ last.splitter \in LastInPlaneEdges


(***************************************************************************)
(* Leaves and split nodes of the polyhedron tree (polyhedron scenario).    *)
(***************************************************************************)

IsLeaf(p) == polyhedra[p].front = None /\ polyhedra[p].back = None

IsSplitNode(p) == polyhedra[p].front # None /\ polyhedra[p].back # None

\* The last call was a split that turned the leaf it was called on into a
\* split node.
LastSplitLeafInTwo ==
    /\ last.op = "Polyhedron.split" /\ last.err = ""
    /\ last.was.front = None /\ last.was.back = None
    /\ IsSplitNode(last.self)

VerticesOf(P) ==
    UNION { {edges[e].end1, edges[e].end2} :
              e \in UNION { SeqToSet(polys[faces[f].polygon].edges) :
                              f \in SeqToSet(P.faces) } }

\* The step is a split of a leaf by a plane that has all the leaf's vertices
\* strictly on the side named.
SplitMisses(side) ==
    /\ last'.op = "Polyhedron.split"
    /\ last'.was.front = None /\ last'.was.back = None
    /\ last'.was.faces # <<>>
    /\ \A v \in VerticesOf(last'.was) : whichSide(TheHeap, last'.plane, v) = side

\* C19: a split of a leaf by a plane that misses it returns the leaf whole in
\* the bucket of its side, leaves it a leaf with the same faces, makes no edge
\* and no polygon and changes no edge and no polygon.
C19_MissedSplitChangesNothing ==
    [][ \A side \in {1, -1} :
          SplitMisses(side) =>
              /\ last'.err = ""
              /\ last'.fronts = (IF side = 1 THEN <<last'.self>> ELSE <<>>)
              /\ last'.backs = (IF side = 1 THEN <<>> ELSE <<last'.self>>)
              /\ last'.splitters = <<>>
              /\ polyhedra'[last'.self] = last'.was
              /\ polyhedra' = polyhedra
              /\ edges' = edges
              /\ polys' = polys
              /\ verts' = verts ]_vars

C19_Witness ==
    /\ last.op = "Polyhedron.split" /\ last.err = ""
    /\ last.was.front = None /\ last.was.back = None
    /\ Len(last.was.faces) = 6
    /\ \A v \in VerticesOf(last.was) : whichSide(TheHeap, last.plane, v) = -1
    /\ last.backs = <<last.self>> /\ last.fronts = <<>>
    /\ polyhedra[last.self] = last.was
    /\ Len(edges) = last.nEdges /\ Len(polys) = last.nPolys


(***************************************************************************)
(* A tetrahedron split through one vertex and two midpoints (tetrahedron   *)
(* scenario).                                                              *)
(***************************************************************************)

\* The plane of the last call holds the midpoint of edge e.
LastHoldsMidpoint(e) ==
    LET c1 == verts[edges[e].end1]
        c2 == verts[edges[e].end2]
    IN  Abs(planeNumber(last.plane, c1[1] + c2[1], c1[2] + c2[2], c1[3] + c2[3])
              - 2 * last.plane.D) <= 2 * planeTolerance

\* The faces of the polyhedron record P that do not have vertex v.
FacesOpposite(P, v) ==
    { f \in SeqToSet(P.faces) :
        \A e \in SeqToSet(polys[faces[f].polygon].edges) :
            edges[e].end1 # v /\ edges[e].end2 # v }

\* The last call split an unsplit tetrahedron with a plane that holds one of
\* its vertices and the midpoints of two edges of the face opposite.
LastSplitThroughVertexAndMidpoints ==
    /\ last.op = "Polyhedron.split"
    /\ last.was.front = None /\ last.was.back = None
    /\ Len(last.was.faces) = 4
    /\ \E v \in VerticesOf(last.was) :
          /\ { w \in VerticesOf(last.was) : LastSideOf(w) = 0 } = {v}
          /\ \E f \in FacesOpposite(last.was, v) :
                Cardinality({ e \in SeqToSet(polys[faces[f].polygon].edges) :
                                LastHoldsMidpoint(e) }) = 2

SeparatorsOf(p) == { i \in 1..Len(polyhedra[p].faces) : faces[polyhedra[p].faces[i]].isSplitter }

\* The last call returned one polyhedron in front and one behind, both new
\* leaves with one separator face each.
LastMadeTwoLeaves ==
    /\ last.err = ""
    /\ Len(last.fronts) = 1 /\ Len(last.backs) = 1
    /\ last.fronts[1] # last.backs[1]
    /\ \A p \in {last.fronts[1], last.backs[1]} :
          /\ p > last.nPolyhedra
          /\ IsLeaf(p)
          /\ Cardinality(SeparatorsOf(p)) = 1
    /\ Len(polyhedra) = last.nPolyhedra + 2

\* C20: a tetrahedron split by a plane through one vertex and the midpoints
\* of two edges of the opposite face gives exactly two new leaves with
\* exactly 4 faces each.
C20_TwoPartsOfFourFaces ==
    LastSplitThroughVertexAndMidpoints =>
        /\ LastMadeTwoLeaves
        /\ Len(polyhedra[last.fronts[1]].faces) = 4
        /\ Len(polyhedra[last.backs[1]].faces) = 4

\* C20 as the code has it: the two new leaves have 4 and 5 faces, the part
\* that holds two corners of the opposite face being the one with 5 (the
\* separator, the face the plane only touches, and 3 remnants).
C20_PartsOfFourAndFiveFaces ==
    LastSplitThroughVertexAndMidpoints =>
        /\ LastMadeTwoLeaves
        /\ { Len(polyhedra[last.fronts[1]].faces), Len(polyhedra[last.backs[1]].faces) }
              = {4, 5}
        /\ \A p \in {last.fronts[1], last.backs[1]} :
              Len(polyhedra[p].faces) = 5 <=>
                  Cardinality(VerticesOf(polyhedra[p]) \cap VerticesOf(last.was)) = 3

C20_Witness ==
    /\ LastSplitThroughVertexAndMidpoints
    /\ LastMadeTwoLeaves
    /\ Len(polyhedra[last.fronts[1]].faces) = 5
    /\ Len(polyhedra[last.backs[1]].faces) = 4


(***************************************************************************)
(* Properties of Polyhedron.simplify (tree scenario).                      *)
(***************************************************************************)

Simplified == last.op = "Polyhedron.simplify" /\ last.err = ""

\* The leaves the tree had when simplify was called, and the empty ones.
LeavesBefore == LeavesOf(last.polyhedraWas, last.self)

EmptyLeavesBefore == { l \in LeavesBefore : Len(last.polyhedraWas[l].faces) < 4 }

IntersectionCalled == last.op = "Plane.intersection"

\* The two ends of the segment lie on strictly opposite sides of the plane.
LastEndsOnOppositeSides ==
    /\ IntersectionCalled
    /\ {LastSideOf(last.point1), LastSideOf(last.point2)} = {1, -1}

\* Vertex v lies on the segment between the two points, to within the
\* rounding of its coordinates.
LastOnSegment(v) ==
    LET c1 == verts[last.point1]
        c2 == verts[last.point2]
        c == verts[v]
        Between(a, x, b) == (a <= x /\ x <= b) \/ (b <= x /\ x <= a)
    IN  /\ \A i \in 1..3 : Between(c1[i], c[i], c2[i])
        /\ Abs((c[1] - c1[1]) * (c2[2] - c1[2]) - (c[2] - c1[2]) * (c2[1] - c1[1]))
              <= Abs(c2[1] - c1[1]) + Abs(c2[2] - c1[2])

\* C22: for a segment whose ends lie on strictly opposite sides of the
\* plane, intersection returns a vertex on the segment that lies in the plane.
C22_IntersectionLiesInPlane ==
    LastEndsOnOppositeSides =>
        /\ last.result # None
        /\ LastOnSegment(last.result)
        /\ LastSideOf(last.result) = 0


(***************************************************************************)
(* Properties of Polygon.draw (drawing scenario).                          *)
(***************************************************************************)

PolygonDrawn == last.op = "Polygon.draw"

PolygonIsSplit(p) == polys[p].front # None /\ polys[p].back # None

\* The triangles tris fan out over the unsplit polygon p: there are n - 2 of
\* them, all with the same first vertex, a vertex of p, and the other two
\* vertices of each are the ends of an edge of p that does not end at that
\* vertex, a different one for each triangle.
IsFanOver(tris, p) ==
    LET es == SeqToSet(polys[p].edges)
        away == { e \in es : ~hasEnd(TheHeap, e, tris[1][1]) }
        Ends(e) == {edges[e].end1, edges[e].end2}
    IN  /\ Len(tris) = Len(polys[p].edges) - 2
        /\ \E e \in es : hasEnd(TheHeap, e, tris[1][1])
        /\ \A i \in 1..Len(tris) : tris[i][1] = tris[1][1]
        /\ \A i \in 1..Len(tris) : \E e \in away : Ends(e) = {tris[i][2], tris[i][3]}
        /\ \A e \in away : \E i \in 1..Len(tris) : Ends(e) = {tris[i][2], tris[i][3]}

RECURSIVE IsDrawingOf(_, _)

\* The triangles tris are those of polygon p: a fan if p is unsplit, and
\* the triangles of its front part followed by those of its back part if not.
IsDrawingOf(tris, p) ==
    IF PolygonIsSplit(p)
    THEN \E k \in 0..Len(tris) :
            /\ IsDrawingOf(SubSeq(tris, 1, k), polys[p].front)
            /\ IsDrawingOf(SubSeq(tris, k + 1, Len(tris)), polys[p].back)
    ELSE IsFanOver(tris, p)

\* C23: draw on an unsplit polygon of n edges makes n - 2 triangles that fan
\* out from one vertex over the edges that do not end there, for either
\* orientation; on a split polygon it makes the triangles of its front and
\* of its back part.
C23_DrawFanTriangulates == PolygonDrawn => IsDrawingOf(last.triangles, last.self)

\* A pentagon split in two has been drawn backwards as a quadrilateral's
\* fan of two and another part's fan.
C23_Witness ==
    /\ PolygonDrawn
    /\ last.orientation = -1
    /\ PolygonIsSplit(last.self)
    /\ ~PolygonIsSplit(polys[last.self].front)
    /\ Len(polys[polys[last.self].front].edges) = 4
    /\ Len(last.triangles) >= 3
    /\ IsDrawingOf(last.triangles, last.self)


(***************************************************************************)
(* The walk along the splitter edges in Polyhedron.split (prism scenario). *)
(***************************************************************************)

LeafSplitCalled ==
    /\ last.op = "Polyhedron.split"
    /\ last.was.front = None /\ last.was.back = None

\* C24: the walk that joins the splitter edges of a leaf's split into the
\* separator polygon ends, and the polygon it makes is a closed loop.
C24_SeparatorWalkEnds ==
    LeafSplitCalled =>
        /\ last.err # "Polyhedron.split is in an infinite loop"
        /\ (last.err = "" /\ last.splitters # <<>>) =>
              /\ Len(last.splitters) = 1
              /\ ClosedLoop(last.splitters[1])


(***************************************************************************)
(* Properties of Polyhedron.clipToPlanes (clipping scenario).              *)
(***************************************************************************)

ClipCalled == last.op = "Polyhedron.clipToPlanes"

ClipReturned == ClipCalled /\ last.pc = "done" /\ last.err = ""

\* C25: within one call of clipToPlanes a polyhedron that a split has
\* returned in front of a plane is not among those still to split and is not
\* made empty; the polyhedra made empty are those left to split when the
\* loop ends.
C25_FrontsAreLeftAlone ==
    ClipCalled =>
        /\ SeqToSet(last.toSplit) \cap last.fronts = {}
        /\ ClipReturned =>
              /\ last.emptied = last.toSplit
              /\ SeqToSet(last.emptied) \cap last.fronts = {}
              /\ \A p \in SeqToSet(last.emptied) :
                    IsLeaf(p) => polyhedra[p].faces = <<>>
              /\ \A p \in last.fronts : polyhedra[p].faces # <<>>

\* A call with two planes has ended with parts in front of a plane and a
\* part behind both that was made empty.
C25_Witness ==
    /\ ClipReturned
    /\ Len(last.given) = 2 /\ last.planes = <<>>
    /\ Cardinality(last.fronts) >= 2
    /\ Len(last.emptied) >= 1
    /\ C25_FrontsAreLeftAlone


\* C30: clipToPlanes leaves the caller's list of planes as it was given.
C30_CallersListUnchanged == ClipReturned => last.planes = last.given

\* ---------------------------------------------------------------------------
\* SplittingSet (SplittingSet.py): the edges that will bound a new polygon,
\* stitched into lists as they arrive. The dictionary edgeLists is a function
\* from keys to records <<start vertex, list of edges, end vertex>>; its keys
\* are vertices and CLOSED_KEY.
\* ---------------------------------------------------------------------------

\* "CLOSED_KEY = "CLOSED"": a key that is no vertex.
CLOSED_KEY == 0

\* "SplittingSet()": "self.edgeLists = {}"
NewSplittingSet == [k \in {} |-> <<>>]

\* "del d[k]" for every key of ks
DictWithout(d, ks) == [k \in (DOMAIN d) \ ks |-> d[k]]

\* "d[k] = v"
DictWith(d, key, v) == [k \in (DOMAIN d) \cup {key} |-> IF k = key THEN v ELSE d[k]]

\* "sequence[ : : -1 ]"
reverseSeq(sequence) ==
    [i \in 1..Len(sequence) |-> sequence[Len(sequence) + 1 - i]]

\* join with the new list never turned around.
joinNeverReversing(d, newList, vertex) ==
    IF vertex \notin DOMAIN d THEN [d |-> d, r |-> newList, err |-> ""]
    ELSE LET partner == d[vertex]
             rest == DictWithout(d, {partner[1], partner[3]})
         IN  IF partner[3] \notin DOMAIN DictWithout(d, {partner[1]})
             THEN [d |-> DictWithout(d, {partner[1]}), r |-> None, err |-> "KeyError"]
             ELSE IF newList[1] = partner[1]
             THEN [d |-> rest, err |-> "",
                   r |-> <<newList[3], newList[2] \o partner[2], partner[3]>>]
             ELSE IF newList[1] = partner[3]
             THEN [d |-> rest, err |-> "",
                   r |-> <<partner[1], partner[2] \o newList[2], newList[3]>>]
             ELSE IF newList[3] = partner[1]
             THEN [d |-> rest, err |-> "",
                   r |-> <<newList[1], newList[2] \o partner[2], partner[3]>>]
             ELSE IF newList[3] = partner[3]
             THEN [d |-> rest, err |-> "",
                   r |-> <<partner[1], partner[2] \o newList[2], newList[1]>>]
             ELSE [d |-> rest, r |-> None,
                   err |-> "ValueError: SplittingSet.join made junction but not at end of new list"]

\* SplittingSet.join: the list that newList and the stored list ending at
\* vertex make together, the stored one taken out of the dictionary; newList
\* itself when no stored list ends at vertex.
join(d, newList, vertex) ==
    IF vertex \notin DOMAIN d THEN [d |-> d, r |-> newList, err |-> ""]
    ELSE LET partner == d[vertex]
             rest == DictWithout(d, {partner[1], partner[3]})
         IN  IF partner[3] \notin DOMAIN DictWithout(d, {partner[1]})
             THEN [d |-> DictWithout(d, {partner[1]}), r |-> None, err |-> "KeyError"]
             ELSE IF newList[1] = partner[1]
             THEN [d |-> rest, err |-> "",
                   r |-> <<newList[3], reverseSeq(newList[2]) \o partner[2], partner[3]>>]
             ELSE IF newList[1] = partner[3]
             THEN [d |-> rest, err |-> "",
                   r |-> <<partner[1], partner[2] \o newList[2], newList[3]>>]
             ELSE IF newList[3] = partner[1]
             THEN [d |-> rest, err |-> "",
                   r |-> <<newList[1], newList[2] \o partner[2], partner[3]>>]
             ELSE IF newList[3] = partner[3]
             THEN [d |-> rest, err |-> "",
                   r |-> <<partner[1], partner[2] \o reverseSeq(newList[2]), newList[1]>>]
             ELSE [d |-> rest, r |-> None,
                   err |-> "ValueError: SplittingSet.join made junction but not at end of new list"]

\* SplittingSet.insert: the dictionary after edge is stitched in at both of
\* its ends.
SplittingSetInsert(h, d, edge) ==
    LET e == h.edges[edge]
    IN  CHOOSE out \in {
            IF j1.err # "" THEN [d |-> j1.d, err |-> j1.err]
            ELSE IF j1.r[1] = j1.r[3]
            THEN [d |-> DictWith(j1.d, CLOSED_KEY, j1.r), err |-> ""]
            ELSE CHOOSE out2 \in {
                    IF j2.err # "" THEN [d |-> j2.d, err |-> j2.err]
                    ELSE IF j2.r[1] = j2.r[3]
                    THEN [d |-> DictWith(j2.d, CLOSED_KEY, j2.r), err |-> ""]
                    ELSE [d |-> DictWith(DictWith(j2.d, j2.r[1], j2.r), j2.r[3], j2.r),
                          err |-> ""]
                    : j2 \in { join(j1.d, j1.r, e.end2) } } : TRUE
            : j1 \in { join(d, <<e.end1, <<edge>>, e.end2>>, e.end1) } } : TRUE

\* SplittingSet.list: the edges of the closed list.
SplittingSetList(d) ==
    IF CLOSED_KEY \in DOMAIN d
    THEN [r |-> d[CLOSED_KEY][2], err |-> ""]
    ELSE [r |-> None,
          err |-> "ValueError: SplittingSet.list doesn't have exactly one closed list"]

\* ---------------------------------------------------------------------------
\* The stitching scenario: the edges of one closed loop, each made in either
\* direction, are inserted into one SplittingSet in any order, and the list is
\* asked for at any time. roots holds the set and the edges inserted so far.
\* ---------------------------------------------------------------------------

RECURSIVE MakeTurnedLoopEdges(_, _, _, _)

\* The edges between each vertex of vs and the next, from the i-th on, the
\* i-th one made from the next vertex to this one where turned[i].
MakeTurnedLoopEdges(acc, vs, turned, i) ==
    IF i > Len(vs) \/ ~Ok(acc.h) THEN acc
    ELSE LET a == vs[i]
             b == vs[(i % Len(vs)) + 1]
         IN  CHOOSE out \in {
                 MakeTurnedLoopEdges([h |-> e.h, r |-> Append(acc.r, e.r)], vs, turned, i + 1)
                 : e \in { IF turned[i] THEN Edge(acc.h, b, a) ELSE Edge(acc.h, a, b) } } : TRUE

\* The vertices of a shape and its loop of edges, turned as told.
TurnedShapeEdges(shape, turned) ==
    CHOOSE out \in {
        MakeTurnedLoopEdges([h |-> vs.h, r |-> <<>>], vs.r, turned, 1)
        : vs \in { MakeVertices([h |-> EmptyHeap, r |-> <<>>], shape, 1) } } : TRUE

InitStitch ==
    /\ \E shape \in PolygonShapes :
          \E turned \in [1..Len(shape) -> BOOLEAN] :
              \E made \in { TurnedShapeEdges(shape, turned) } :
                  /\ verts = made.h.verts
                  /\ edges = made.h.edges
                  /\ polys = made.h.polys
                  /\ faces = made.h.faces
                  /\ polyhedra = made.h.polyhedra
    /\ roots = [edgeLists |-> NewSplittingSet, inserted |-> {}]
    /\ last = NoCall
    /\ nCalls = 0

\* "splitters.insert( edge )" for an edge of the loop not inserted yet
CallInsert ==
    /\ \E edge \in (1..Len(edges)) \ roots.inserted :
          \E r \in { SplittingSetInsert(TheHeap, roots.edgeLists, edge) } :
              /\ roots' = [edgeLists |-> r.d, inserted |-> roots.inserted \cup {edge}]
              /\ last' = [op |-> "SplittingSet.insert", edge |-> edge, err |-> r.err]
    /\ nCalls' = nCalls + 1
    /\ UNCHANGED <<verts, edges, polys, faces, polyhedra>>

\* "splitters.list()"
CallList ==
    /\ last.op # "SplittingSet.list"
    /\ \E r \in { SplittingSetList(roots.edgeLists) } :
          last' = [op |-> "SplittingSet.list", result |-> r.r, err |-> r.err]
    /\ UNCHANGED <<verts, edges, polys, faces, polyhedra, roots, nCalls>>

NextStitch == CallInsert \/ CallList

SpecStitch == InitStitch /\ [][NextStitch]_vars

\* ---------------------------------------------------------------------------
\* C26
\* ---------------------------------------------------------------------------

\* Every edge of the loop has been inserted.
AllInserted == roots.inserted = 1..Len(edges)

\* Two edges have an end in common.
ShareEndpoint(e1, e2) ==
    {edges[e1].end1, edges[e1].end2} \cap {edges[e2].end1, edges[e2].end2} # {}

\* The list holds each inserted edge once, and each edge of it shares an end
\* with the one after it, the last with the first.
IsClosedListOfInserted(l) ==
    /\ Len(l) = Cardinality(roots.inserted)
    /\ { l[i] : i \in 1..Len(l) } = roots.inserted
    /\ \A i \in 1..Len(l) : ShareEndpoint(l[i], l[(i % Len(l)) + 1])

\* The edges of a stored list follow one another from its start vertex to its
\* end vertex.
RECURSIVE RunsBetween(_, _, _, _)
RunsBetween(l, i, from, to) ==
    IF i > Len(l) THEN from = to
    ELSE LET e == edges[l[i]]
         IN  \/ e.end1 = from /\ RunsBetween(l, i + 1, e.end2, to)
             \/ e.end2 = from /\ RunsBetween(l, i + 1, e.end1, to)

\* Every key of the dictionary is an end of the open list stored under it,
\* that list is stored under its other end too and runs from one end to the
\* other, and every inserted edge is in one stored list, once.
OpenListsUnderTheirEnds ==
    LET d == roots.edgeLists
        stored == { d[k] : k \in DOMAIN d }
    IN  /\ CLOSED_KEY \notin DOMAIN d
        /\ \A k \in DOMAIN d :
              /\ k \in {d[k][1], d[k][3]}
              /\ d[k][1] # d[k][3]
              /\ d[k][1] \in DOMAIN d /\ d[d[k][1]] = d[k]
              /\ d[k][3] \in DOMAIN d /\ d[d[k][3]] = d[k]
              /\ RunsBetween(d[k][2], 1, d[k][1], d[k][3])
        /\ \A c \in stored : \A k \in DOMAIN d : d[k] = c => k \in {c[1], c[3]}
        /\ \A e \in roots.inserted :
              Cardinality({ <<c, i>> \in stored \X (1..Len(edges)) :
                              i <= Len(c[2]) /\ c[2][i] = e }) = 1

\* C26: once every edge of a closed loop has been inserted, in any order,
\* list() returns each inserted edge exactly once, every edge sharing an end
\* with its successor and the last with the first; before that list() raises
\* ValueError, no insert raises, and every stored open list is registered
\* under exactly its two end vertices.
C26_StitchingClosesTheLoop ==
    /\ last.op = "SplittingSet.insert" => last.err = ""
    /\ AllInserted =>
          /\ CLOSED_KEY \in DOMAIN roots.edgeLists
          /\ last.op = "SplittingSet.list" =>
                last.err = "" /\ IsClosedListOfInserted(last.result)
    /\ ~AllInserted =>
          /\ OpenListsUnderTheirEnds
          /\ last.op = "SplittingSet.list" =>
                last.err = "ValueError: SplittingSet.list doesn't have exactly one closed list"

\* The list of a pentagon has been returned, two edges next to each other in
\* the loop having been made in opposite directions.
C26_Witness ==
    /\ AllInserted
    /\ last.op = "SplittingSet.list"
    /\ last.err = ""
    /\ Len(last.result) = 5
    /\ \E i \in 1..4 : edges[i].end1 = edges[i + 1].end1 \/ edges[i].end2 = edges[i + 1].end2

\* ---------------------------------------------------------------------------
\* The second-edge scenario: the driver of the polyhedron scenario, which
\* also tries to make what exists already: an Edge between the two ends of an
\* edge, in either order, and a Polyhedron from the vertex list of a box it
\* has built.
\* ---------------------------------------------------------------------------

\* The vertex list the i-th box was built from: boxes are built before any
\* other call, eight vertices each.
VertexListOf(i) == [k \in 1..8 |-> 8 * (i - 1) + k]

\* "Edge( v1, v2 )" for the ends of an edge that exists
CallEdgeAgain ==
    /\ last.err = ""
    /\ \E e \in 1..Len(edges), turned \in BOOLEAN :
          LET v1 == IF turned THEN edges[e].end2 ELSE edges[e].end1
              v2 == IF turned THEN edges[e].end1 ELSE edges[e].end2
          IN  \E r \in { Edge(TheHeap, v1, v2) } :
                  /\ HeapBecomes(r.h)
                  /\ last' = [op |-> "Edge", self |-> r.r, err |-> r.h.err]
    /\ UNCHANGED <<roots, nCalls>>

\* "Polyhedron( vertices, rectangleFaces, color )" with the vertex list of a
\* box built before
CallPolyhedronAgain ==
    /\ last.err = ""
    /\ \E i \in 1..Len(roots) :
          \E r \in { Polyhedron(TheHeap, VertexListOf(i), rectangleFaces,
                                Len(polyhedra) + 1) } :
              /\ HeapBecomes(r.h)
              /\ last' = [op |-> "Polyhedron again", vertices |-> VertexListOf(i),
                          self |-> r.r, err |-> r.h.err]
    /\ UNCHANGED <<roots, nCalls>>

NextUnique ==
    CallPolyhedron \/ CallSplit \/ CallClipTo \/ CallEdgeAgain \/ CallPolyhedronAgain

SpecUnique == Init /\ [][NextUnique]_vars

\* ---------------------------------------------------------------------------
\* C27
\* ---------------------------------------------------------------------------

\* No two edges lie between the same two vertices.
EdgesAreUnique ==
    \A e1, e2 \in 1..Len(edges) :
        e1 # e2 => {edges[e1].end1, edges[e1].end2} # {edges[e2].end1, edges[e2].end2}

\* The step tried to make an edge, or a polyhedron, that exists.
MakesAgain == last'.op \in {"Edge", "Polyhedron again"}

\* C27: whatever polyhedra are built, split (edges hoisted on the way) and
\* clipped, no two Edge objects have the same pair of end vertices; and
\* making a second Edge between the ends of an edge, alone or for a second
\* Polyhedron over the same vertex list, raises RuntimeError and leaves every
\* object and every registry as it was.
C27_EdgesStayUnique ==
    /\ []EdgesAreUnique
    /\ [][MakesAgain =>
             /\ last'.err = "RuntimeError: Creating edge that already exists."
             /\ last'.self = None
             /\ UNCHANGED <<verts, edges, polys, faces, polyhedra, roots>>]_vars

\* A second polyhedron was tried over the vertex list of a box whose edges a
\* split has cut already.
C27_Witness ==
    /\ last.op = "Polyhedron again"
    /\ nCalls > 0
    /\ \E e \in 1..Len(edges) : edges[e].splitterVertex # None
    /\ last.err # ""

\* ---------------------------------------------------------------------------
\* C28, C29
\* ---------------------------------------------------------------------------

\* A polyhedron record is a leaf without faces.
IsEmptyLeaf(P) == P.front = None /\ P.back = None /\ P.faces = <<>>

\* The last call was a.clipTo( other ) with other a leaf without faces.
ClippedToEmptyLeaf ==
    last.op = "Polyhedron.clipTo" /\ IsEmptyLeaf(last.otherWas)

\* C28: a.clipTo( other ) with other a leaf whose faces list is empty leaves
\* the faces, the front and the back of a as they were.
C28_EmptyOtherRemovesNothing ==
    ClippedToEmptyLeaf =>
        /\ last.err = ""
        /\ polyhedra[last.self].faces = last.was.faces
        /\ polyhedra[last.self].front = last.was.front
        /\ polyhedra[last.self].back = last.was.back

\* The last call was a.clipTo( b ) with a a leaf without faces and b a leaf
\* with at least four faces.
ClippedEmptyLeaf ==
    /\ last.op = "Polyhedron.clipTo"
    /\ IsEmptyLeaf(last.was)
    /\ last.otherWas.front = None /\ last.otherWas.back = None
    /\ Len(last.otherWas.faces) >= 4

\* C29: a.clipTo( b ) with a a leaf without faces and b a convex polyhedron
\* that is not empty returns without raising and leaves a a leaf without
\* faces.
C29_EmptySelfStaysEmpty ==
    ClippedEmptyLeaf =>
        /\ last.err = ""
        /\ IsEmptyLeaf(polyhedra[last.self])

====
